---------------------------- MODULE Spec2Model ----------------------------
(***************************************************************************)
(* Verification model of the source-registry tooling                       *)
(* (code/tools/sources): text normalisation, validate_records,             *)
(* apply_payload, the request handlers of the local UI server, and the     *)
(* artifact writers write_sources_sheet and write_bib.                     *)
(*                                                                         *)
(* Strings are sequences of one-character strings, so that whitespace      *)
(* normalisation, lower-casing and slugification are computed character by *)
(* character as the code computes them.                                    *)
(***************************************************************************)
EXTENDS Integers, Sequences, FiniteSets, TLC

(***************************************************************************)
(* Text primitives (common.py, Python str methods).                        *)
(***************************************************************************)

\* Characters Python's \s and str.strip() treat as whitespace (the ASCII
\* ones the model uses; the form feed is one of them).
Whitespace == {" ", "\t", "\n", "\r", "\f"}

Upper == <<"A","B","C","D","E","F","G","H","I","J","K","L","M",
           "N","O","P","Q","R","S","T","U","V","W","X","Y","Z">>

LowerAlpha == <<"a","b","c","d","e","f","g","h","i","j","k","l","m",
                "n","o","p","q","r","s","t","u","v","w","x","y","z">>

Digits == {"0","1","2","3","4","5","6","7","8","9"}

IsUpper(c) == \E i \in 1..26 : Upper[i] = c

IsLower(c) == \E i \in 1..26 : LowerAlpha[i] = c

IsAlnum(c) == IsUpper(c) \/ IsLower(c) \/ c \in Digits

\* str.lower() on one character.
LowerChar(c) ==
    IF IsUpper(c) THEN LowerAlpha[CHOOSE i \in 1..26 : Upper[i] = c] ELSE c

\* str.lower()
Lower(s) == [i \in 1..Len(s) |-> LowerChar(s[i])]

RECURSIVE LStrip(_)
\* str.lstrip()
LStrip(s) ==
    IF s = <<>> THEN s
    ELSE IF Head(s) \in Whitespace THEN LStrip(Tail(s)) ELSE s

RECURSIVE RStrip(_)
\* str.rstrip()
RStrip(s) ==
    IF s = <<>> THEN s
    ELSE IF s[Len(s)] \in Whitespace THEN RStrip(SubSeq(s, 1, Len(s) - 1)) ELSE s

\* str.strip()
Strip(s) == RStrip(LStrip(s))

RECURSIVE CollapseWs(_)
\* re.sub(r"\s+", " ", s): every run of whitespace becomes one space.
CollapseWs(s) ==
    IF s = <<>> THEN s
    ELSE IF Head(s) \in Whitespace
         THEN <<" ">> \o CollapseWs(LStrip(s))
         ELSE <<Head(s)>> \o CollapseWs(Tail(s))

\* common.normalize_whitespace
normalize_whitespace(value) == CollapseWs(Strip(value))

\* common.normalize_text
normalize_text(value) == Lower(normalize_whitespace(value))

\* Code point order of the characters the model uses (space < digits <
\* upper case < lower case; punctuation placed by its ASCII code).
CharCode(c) ==
    CASE c = "\t" -> 9
      [] c = "\n" -> 10
      [] c = "\f" -> 12
      [] c = "\r" -> 13
      [] c = " " -> 32
      [] c = "#" -> 35
      [] c = "&" -> 38
      [] c = "," -> 44
      [] c = "-" -> 45
      [] c = "." -> 46
      [] c = "/" -> 47
      [] c \in Digits -> 48 + (CHOOSE d \in 0..9 : <<"0","1","2","3","4","5","6","7","8","9">>[d + 1] = c)
      [] c = ":" -> 58
      [] c = ";" -> 59
      [] c = "<" -> 60
      [] c = "=" -> 61
      [] c = ">" -> 62
      [] c = "?" -> 63
      [] IsUpper(c) -> 64 + (CHOOSE i \in 1..26 : Upper[i] = c)
      [] c = "_" -> 95
      [] IsLower(c) -> 96 + (CHOOSE i \in 1..26 : LowerAlpha[i] = c)
      [] c = "{" -> 123
      [] c = "}" -> 125
      [] OTHER -> 126

RECURSIVE StrLess(_, _)
\* Python's < on str: lexicographic by code point.
StrLess(a, b) ==
    IF b = <<>> THEN FALSE
    ELSE IF a = <<>> THEN TRUE
    ELSE IF Head(a) = Head(b) THEN StrLess(Tail(a), Tail(b))
    ELSE CharCode(Head(a)) < CharCode(Head(b))

\* Index of the first occurrence of character c in s at or after position
\* from (1-based), 0 when absent: str.find on one character.
Find(s, c, from) ==
    IF \E i \in from..Len(s) : s[i] = c
    THEN CHOOSE i \in from..Len(s) : s[i] = c /\ \A j \in from..(i - 1) : s[j] # c
    ELSE 0

\* s.startswith(p)
StartsWith(s, p) == Len(s) >= Len(p) /\ SubSeq(s, 1, Len(p)) = p

(***************************************************************************)
(* URLs: urllib.parse.urlparse as normalize_url uses it, and the URL_RE    *)
(* pattern of validate_sources.py / ui_local.py.                           *)
(***************************************************************************)

\* urllib.parse.scheme_chars
IsSchemeChar(c) == IsAlnum(c) \/ c \in {"+", "-", "."}

\* urllib.parse.uses_params
UsesParams ==
    { <<>>,
      <<"f","t","p">>,
      <<"h","d","l">>,
      <<"p","r","o","s","p","e","r","o">>,
      <<"h","t","t","p">>,
      <<"i","m","a","p">>,
      <<"h","t","t","p","s">>,
      <<"s","h","t","t","p">>,
      <<"r","t","s","p">>,
      <<"r","t","s","p","u">>,
      <<"s","i","p">>,
      <<"s","i","p","s">>,
      <<"m","m","s">>,
      <<"s","f","t","p">>,
      <<"t","e","l">> }

\* Position of the first character of s at or after from that is in set cs,
\* Len(s) + 1 when there is none.
FindAny(s, cs, from) ==
    IF \E i \in from..Len(s) : s[i] \in cs
    THEN CHOOSE i \in from..Len(s) : s[i] \in cs /\ \A j \in from..(i - 1) : s[j] \notin cs
    ELSE Len(s) + 1

\* SubSeq that tolerates an empty or reversed range, like a Python slice.
Slice(s, lo, hi) == IF lo > hi THEN <<>> ELSE SubSeq(s, lo, hi)

\* Index of the last occurrence of character c in s, 0 when absent: str.rfind.
RFind(s, c) ==
    IF \E i \in 1..Len(s) : s[i] = c
    THEN CHOOSE i \in 1..Len(s) : s[i] = c /\ \A j \in (i + 1)..Len(s) : s[j] # c
    ELSE 0

\* urlsplit, last step: the params behind the last ";" of the last path
\* segment leave the path of the schemes that use them.
UrlParams(scheme, netloc, query, rest4, semi) ==
    [scheme |-> scheme, netloc |-> netloc, query |-> query,
     path |-> IF scheme \in UsesParams /\ semi > 0
              THEN Slice(rest4, 1, semi - 1) ELSE rest4]

UrlPath(scheme, netloc, query, rest4, lastSlash) ==
    UrlParams(scheme, netloc, query, rest4,
              IF lastSlash > 0 THEN Find(rest4, ";", lastSlash) ELSE Find(rest4, ";", 1))

\* urlsplit: the query starts at the first "?".
UrlQuery(scheme, netloc, rest3, qm) ==
    UrlPath(scheme, netloc,
            IF qm > 0 THEN Slice(rest3, qm + 1, Len(rest3)) ELSE <<>>,
            IF qm > 0 THEN Slice(rest3, 1, qm - 1) ELSE rest3,
            RFind(IF qm > 0 THEN Slice(rest3, 1, qm - 1) ELSE rest3, "/"))

\* urlsplit: the fragment starts at the first "#".
UrlFragment(scheme, netloc, rest2, hash) ==
    UrlQuery(scheme, netloc,
             IF hash > 0 THEN Slice(rest2, 1, hash - 1) ELSE rest2,
             Find(IF hash > 0 THEN Slice(rest2, 1, hash - 1) ELSE rest2, "?", 1))

\* urlsplit: behind "//" the netloc runs up to the first "/", "?" or "#".
UrlNetloc(scheme, rest1, hasNet, netEnd) ==
    UrlFragment(scheme,
                IF hasNet THEN Slice(rest1, 3, netEnd - 1) ELSE <<>>,
                IF hasNet THEN Slice(rest1, netEnd, Len(rest1)) ELSE rest1,
                Find(IF hasNet THEN Slice(rest1, netEnd, Len(rest1)) ELSE rest1, "#", 1))

UrlRest(scheme, rest1) ==
    UrlNetloc(scheme, rest1, StartsWith(rest1, <<"/", "/">>),
              FindAny(rest1, {"/", "?", "#"}, 3))

\* urlsplit: a scheme is a letter followed by scheme characters, up to the
\* first ":".
UrlHasScheme(val, colon) ==
    /\ colon > 1
    /\ IsUpper(val[1]) \/ IsLower(val[1])
    /\ \A k \in 1..(colon - 1) : IsSchemeChar(val[k])

UrlScheme(val, colon) ==
    UrlRest(IF UrlHasScheme(val, colon) THEN Lower(SubSeq(val, 1, colon - 1)) ELSE <<>>,
            IF UrlHasScheme(val, colon) THEN Slice(val, colon + 1, Len(val)) ELSE val)

\* urllib.parse.urlparse(val): [scheme, netloc, path, query]; the params and the
\* fragment are split off and not kept, since normalize_url never reads them.
urlparse(val) == UrlScheme(val, Find(val, ":", 1))

RECURSIVE CollapseSlashes(_)
\* re.sub(r"/+", "/", path)
CollapseSlashes(s) ==
    IF Len(s) <= 1 THEN s
    ELSE IF s[1] = "/" /\ s[2] = "/" THEN CollapseSlashes(Tail(s))
    ELSE <<Head(s)>> \o CollapseSlashes(Tail(s))

RECURSIVE RStripSlash(_)
\* path.rstrip("/")
RStripSlash(s) ==
    IF s = <<>> THEN s
    ELSE IF s[Len(s)] = "/" THEN RStripSlash(SubSeq(s, 1, Len(s) - 1)) ELSE s

\* Lines 101-107 of normalize_url: the URL rebuilt from its parsed parts.
UrlRebuilt(parsed) ==
    (IF parsed.scheme # <<>> THEN Lower(parsed.scheme) ELSE <<"h","t","t","p","s">>)
    \o <<":", "/", "/">> \o Lower(parsed.netloc)
    \o RStripSlash(CollapseSlashes(parsed.path))
    \o (IF parsed.query # <<>> THEN <<"?">> \o parsed.query ELSE <<>>)

UrlNormalized(val) == IF val = <<>> THEN <<>> ELSE UrlRebuilt(urlparse(val))

\* common.normalize_url
normalize_url(value) == UrlNormalized(normalize_whitespace(value))

\* URL_RE.match(s): ^https?:// , case-insensitive.
URL_RE_match(s) ==
    \/ StartsWith(Lower(s), <<"h","t","t","p",":","/","/">>)
    \/ StartsWith(Lower(s), <<"h","t","t","p","s",":","/","/">>)

\* YEAR_RE.match(s): ^\d{4}$ ; "$" also matches before one trailing newline.
YEAR_RE_match(s) ==
    \/ Len(s) = 4 /\ \A i \in 1..4 : s[i] \in Digits
    \/ Len(s) = 5 /\ s[5] = "\n" /\ \A i \in 1..4 : s[i] \in Digits

DigitVal(c) == CHOOSE d \in 0..9 : <<"0","1","2","3","4","5","6","7","8","9">>[d + 1] = c

\* int(year) for a string YEAR_RE accepts.
YearInt(s) == 1000 * DigitVal(s[1]) + 100 * DigitVal(s[2]) + 10 * DigitVal(s[3]) + DigitVal(s[4])

\* DOI_RE.match(s): ^10\.\d{4,9}/[-._;()/:A-Z0-9]+$ , case-insensitive.
DOI_RE_match(s) ==
    LET slash == Find(s, "/", 1)
        body == IF Len(s) > 0 /\ s[Len(s)] = "\n" THEN SubSeq(s, 1, Len(s) - 1) ELSE s
    IN  /\ StartsWith(s, <<"1", "0", ".">>)
        /\ slash >= 8 /\ slash <= 13
        /\ \A i \in 4..(slash - 1) : s[i] \in Digits
        /\ Len(body) > slash
        /\ \A i \in (slash + 1)..Len(body) :
              IsAlnum(body[i]) \/ body[i] \in {"-", ".", "_", ";", "(", ")", "/", ":"}

(***************************************************************************)
(* Generic helpers for Python lists and dicts.                             *)
(***************************************************************************)

\* A dict is a set of <<key, value>> pairs with at most one pair per key.
Has(d, k) == \E p \in d : p[1] = k

Get(d, k) == (CHOOSE p \in d : p[1] = k)[2]

\* d[k] = v
Put(d, k, v) == {p \in d : p[1] # k} \cup {<<k, v>>}

\* <<x>> when cond holds, else the empty list: one conditional list.append.
Opt(cond, x) == IF cond THEN <<x>> ELSE <<>>

SeqToSet(q) == {q[i] : i \in 1..Len(q)}

(***************************************************************************)
(* Registry model (common.py).                                             *)
(***************************************************************************)

\* The sort key of records_sorted.
SortKey(r) == <<normalize_text(r.source), normalize_text(r.citekey)>>

\* Python tuple comparison of two sort keys.
KeyLess(k1, k2) == StrLess(k1[1], k2[1]) \/ (k1[1] = k2[1] /\ StrLess(k1[2], k2[2]))

RECURSIVE InsertStable(_, _)
\* Insert r behind every element whose key is not greater than r's.
InsertStable(r, q) ==
    IF q = <<>> THEN <<r>>
    ELSE IF KeyLess(SortKey(r), SortKey(Head(q))) THEN <<r>> \o q
    ELSE <<Head(q)>> \o InsertStable(r, Tail(q))

RECURSIVE SortFrom(_, _)
SortFrom(q, acc) ==
    IF q = <<>> THEN acc ELSE SortFrom(Tail(q), InsertStable(Head(q), acc))

\* common.records_sorted: sorted() is stable.
records_sorted(recs) == SortFrom(recs, <<>>)

\* The twelve top-level fields an edit may overwrite (ui_local.apply_payload);
\* with id, the review-comment fields, bib and the stamps they make up
\* common.CANONICAL_KEYS.
TopFields ==
    <<"section", "aggsource", "legend", "source", "citekey", "data_type", "link",
      "ref_link", "inclusion_in_warehouse", "multigeo_reference", "metadata",
      "metadatalink">>

\* The review-comment fields, carried through unmodified.
ReviewFields ==
    <<"qcommentsforta", "tareply", "tacomments", "arjcomments", "arjreplies",
      "seeaggsourcelisthere">>

\* The keys of a candidate's bib other than extra_fields (make_candidate).
BibFields ==
    <<"entry_type", "title", "author", "year", "month", "journal", "booktitle",
      "volume", "number", "pages", "institution", "publisher", "doi", "url",
      "urldate", "abstract", "keywords", "note">>

\* A bib with every field blank; extra_fields is a dict.
BlankBib ==
    [entry_type |-> <<>>, title |-> <<>>, author |-> <<>>, year |-> <<>>,
     month |-> <<>>, journal |-> <<>>, booktitle |-> <<>>, volume |-> <<>>,
     number |-> <<>>, pages |-> <<>>, institution |-> <<>>, publisher |-> <<>>,
     doi |-> <<>>, url |-> <<>>, urldate |-> <<>>, abstract |-> <<>>,
     keywords |-> <<>>, note |-> <<>>, extra_fields |-> {}]

\* A record with every field blank; dict.get(key, "") reads a missing key as "".
\* The stamps created_at / updated_at are readings of a logical clock.
BlankRecord ==
    [id |-> <<>>, section |-> <<>>, aggsource |-> <<>>, legend |-> <<>>,
     source |-> <<>>, data_type |-> <<>>, link |-> <<>>, ref_link |-> <<>>,
     citekey |-> <<>>, inclusion_in_warehouse |-> <<>>,
     multigeo_reference |-> <<>>, metadata |-> <<>>, metadatalink |-> <<>>,
     qcommentsforta |-> <<>>, tareply |-> <<>>, tacomments |-> <<>>,
     arjcomments |-> <<>>, arjreplies |-> <<>>, seeaggsourcelisthere |-> <<>>,
     bib |-> BlankBib, created_at |-> 0, updated_at |-> 0,
     created_by |-> <<>>, updated_by |-> <<>>]

(***************************************************************************)
(* validate_sources.validate_records                                       *)
(***************************************************************************)

\* One message of the errors / warns lists: the kind of the f-string and the
\* values formatted into it (the record id, a value, the first id of a pair).
Msg(kind, id, val, first) == [kind |-> kind, id |-> id, val |-> val, first |-> first]

\* A strict-only issue that stays a warning whatever the flag.
StrictOnlyNever(strict) == FALSE

\* (errors if strict else warns).append(msg): which list a strict-only issue joins.
StrictOnlyIsError(strict) == strict

\* The citekey collision handled like the source collision: always an error.
DupCitekeyAlwaysError(strict) == TRUE

\* Line 109: the list an "Exact duplicate citekey" message joins.
DupCitekeyIsError(strict) == strict

\* Line 52: the key under which a record's source enters by_source.
SourceKey(rec) == normalize_whitespace(rec.source)

\* Lines 51-127: the messages one loop iteration appends for rec, and the four
\* seen-value maps after it.
RecordIssues(rec, strict, bs, bc, bu, bt) ==
    LET rec_id == rec.id
        source == SourceKey(rec)
        citekey == normalize_whitespace(rec.citekey)
        link == normalize_whitespace(rec.link)
        ref_link == normalize_whitespace(rec.ref_link)
        bib == rec.bib
        year == Strip(bib.year)
        title == normalize_whitespace(bib.title)
        author == normalize_whitespace(bib.author)
        bib_url == normalize_whitespace(bib.url)
        doi == normalize_whitespace(bib.doi)
        keywords == normalize_whitespace(bib.keywords)
        yearOk == year # <<>> /\ YEAR_RE_match(year)
        url_candidate == normalize_url(IF bib_url # <<>> THEN bib_url ELSE link)
        ty == <<normalize_text(title), year>>
        so == StrictOnlyIsError(strict)
        \* every message of the iteration, in order, tagged with its list
        all ==
            Opt(rec_id = <<>>, <<"E", Msg("missing_id", <<>>, <<>>, <<>>)>>)
         \o Opt(source = <<>>, <<"E", Msg("missing_source", rec_id, <<>>, <<>>)>>)
         \o Opt(citekey = <<>>, <<"E", Msg("missing_citekey", rec_id, <<>>, <<>>)>>)
         \o Opt(link = <<>>, <<"E", Msg("missing_link", rec_id, <<>>, <<>>)>>)
         \o Opt(link # <<>> /\ ~URL_RE_match(link),
                <<IF so THEN "E" ELSE "W", Msg("invalid_link", rec_id, link, <<>>)>>)
         \o Opt(ref_link # <<>> /\ ~URL_RE_match(ref_link),
                <<IF so THEN "E" ELSE "W", Msg("invalid_ref_link", rec_id, ref_link, <<>>)>>)
         \o Opt(normalize_whitespace(bib.entry_type) = <<>>,
                <<"E", Msg("bib_entry_type_required", rec_id, <<>>, <<>>)>>)
         \o Opt(title = <<>>, <<"E", Msg("bib_title_required", rec_id, <<>>, <<>>)>>)
         \o Opt(author = <<>>, <<"E", Msg("bib_author_required", rec_id, <<>>, <<>>)>>)
         \o Opt(~yearOk, <<"E", Msg("bib_year_must_be_YYYY", rec_id, <<>>, <<>>)>>)
         \o Opt(yearOk /\ (YearInt(year) < 1600 \/ YearInt(year) > 2100),
                <<"E", Msg("bib_year_out_of_range", rec_id, year, <<>>)>>)
         \o Opt(bib_url # <<>> /\ ~URL_RE_match(bib_url),
                <<IF so THEN "E" ELSE "W", Msg("invalid_bib_url", rec_id, bib_url, <<>>)>>)
         \o Opt(doi # <<>> /\ ~DOI_RE_match(doi),
                <<IF so THEN "E" ELSE "W", Msg("invalid_bib_doi", rec_id, doi, <<>>)>>)
         \o Opt(keywords = <<>>, <<"W", Msg("bib_keywords_missing", rec_id, <<>>, <<>>)>>)
         \o Opt(Has(bs, source),
                <<"E", Msg("dup_source", rec_id, source, IF Has(bs, source) THEN Get(bs, source) ELSE <<>>)>>)
         \o Opt(Has(bc, citekey),
                <<IF DupCitekeyIsError(strict) THEN "E" ELSE "W",
                  Msg("dup_citekey", rec_id, citekey, IF Has(bc, citekey) THEN Get(bc, citekey) ELSE <<>>)>>)
         \o Opt(url_candidate # <<>> /\ Has(bu, url_candidate),
                <<IF so THEN "E" ELSE "W",
                  Msg("dup_url", rec_id, url_candidate,
                      IF Has(bu, url_candidate) THEN Get(bu, url_candidate) ELSE <<>>)>>)
         \o Opt(title # <<>> /\ year # <<>> /\ Has(bt, ty),
                <<IF so THEN "E" ELSE "W",
                  Msg("dup_title_year", rec_id, title \o <<" ", "(">> \o year \o <<")">>, IF Has(bt, ty) THEN Get(bt, ty) ELSE <<>>)>>)
        pick(tag) == SelectSeq(all, LAMBDA m : m[1] = tag)
    IN  [errors |-> [i \in 1..Len(pick("E")) |-> pick("E")[i][2]],
         warns |-> [i \in 1..Len(pick("W")) |-> pick("W")[i][2]],
         by_source |-> IF Has(bs, source) THEN bs ELSE Put(bs, source, rec_id),
         by_citekey |-> IF Has(bc, citekey) THEN bc ELSE Put(bc, citekey, rec_id),
         by_url |-> IF url_candidate = <<>> \/ Has(bu, url_candidate) THEN bu
                    ELSE Put(bu, url_candidate, rec_id),
         by_title_year |-> IF title = <<>> \/ year = <<>> \/ Has(bt, ty) THEN bt
                           ELSE Put(bt, ty, rec_id)]

(***************************************************************************)
(* validate_sources.fuzzy_warnings and difflib.SequenceMatcher.ratio       *)
(***************************************************************************)

Min(a, b) == IF a < b THEN a ELSE b

\* SequenceMatcher.find_longest_match over the whole of a and b: <<i, j, k>>
\* with a[i..i+k-1] = b[j..j+k-1], k largest, then i smallest, then j
\* smallest; k = 0 when a and b share no character.  (No junk: autojunk only
\* applies to sequences of 200 elements and more.)
LongestMatch(a, b) ==
    LET blocks == {t \in (1..Len(a)) \X (1..Len(b)) \X (1..Min(Len(a), Len(b))) :
                      /\ t[1] + t[3] - 1 <= Len(a)
                      /\ t[2] + t[3] - 1 <= Len(b)
                      /\ SubSeq(a, t[1], t[1] + t[3] - 1) = SubSeq(b, t[2], t[2] + t[3] - 1)}
        better(t, u) == \/ t[3] > u[3]
                        \/ t[3] = u[3] /\ t[1] < u[1]
                        \/ t[3] = u[3] /\ t[1] = u[1] /\ t[2] < u[2]
    IN  IF blocks = {} THEN <<1, 1, 0>>
        ELSE CHOOSE t \in blocks : \A u \in blocks : u = t \/ better(t, u)

RECURSIVE Matches(_, _)
\* The sum of the sizes of SequenceMatcher.get_matching_blocks(): the longest
\* block, then the same to its left and to its right.
Matches(a, b) ==
    IF a = <<>> \/ b = <<>> THEN 0
    ELSE LET m == LongestMatch(a, b)
         IN  IF m[3] = 0 THEN 0
             ELSE m[3]
                  + Matches(Slice(a, 1, m[1] - 1), Slice(b, 1, m[2] - 1))
                  + Matches(Slice(a, m[1] + m[3], Len(a)), Slice(b, m[2] + m[3], Len(b)))

\* SequenceMatcher(None, a, b).ratio() >= pct / 100, in integers:
\* ratio = 2 * matches / (len(a) + len(b)), and 1.0 for two empty strings.
RatioAtLeast(a, b, pct) ==
    IF Len(a) + Len(b) = 0 THEN TRUE
    ELSE 200 * Matches(a, b) >= pct * (Len(a) + Len(b))

\* The ratio as f"{sim:.2f}" prints it, in hundredths.
RatioPct(a, b) ==
    IF Len(a) + Len(b) = 0 THEN 100
    ELSE (400 * Matches(a, b) + (Len(a) + Len(b))) \div (2 * (Len(a) + Len(b)))

\* The thresholds of the three passes, in hundredths.
TitleThreshold == 93

AuthorThreshold == 92

PathThreshold == 90

\* title[:12]
TitleBucketKey(title) == Slice(title, 1, Min(12, Len(title)))

\* The host and path fuzzy_warnings reads off a record: urlparse of the
\* normalized bib.url (or link).
FuzzyUrl(rec) ==
    LET url == normalize_url(IF rec.bib.url # <<>> THEN rec.bib.url ELSE rec.link)
    IN  [url |-> url, netloc |-> urlparse(url).netloc, path |-> urlparse(url).path]

\* Lines 136-204: the set of advisory lines; records i < j of one bucket are
\* compared in list order, so the line names the earlier record first.
FuzzyWarningSet(records) ==
    LET n == Len(records)
        pairs == {p \in (1..n) \X (1..n) : p[1] < p[2]}
        t(i) == normalize_text(records[i].bib.title)
        y(i) == Strip(records[i].bib.year)
        au(i) == normalize_text(records[i].bib.author)
        u(i) == FuzzyUrl(records[i])
        titleHits ==
            {Msg("fuzzy_title", records[p[1]].id, RatioPct(t(p[1]), t(p[2])), records[p[2]].id) :
                p \in {q \in pairs :
                         /\ t(q[1]) # <<>> /\ t(q[2]) # <<>>
                         /\ TitleBucketKey(t(q[1])) = TitleBucketKey(t(q[2]))
                         /\ t(q[1]) # t(q[2])
                         /\ RatioAtLeast(t(q[1]), t(q[2]), TitleThreshold)}}
        authorHits ==
            {Msg("fuzzy_author_year", records[p[1]].id, RatioPct(au(p[1]), au(p[2])), records[p[2]].id) :
                p \in {q \in pairs :
                         /\ y(q[1]) # <<>> /\ au(q[1]) # <<>>
                         /\ y(q[2]) # <<>> /\ au(q[2]) # <<>>
                         /\ y(q[1]) = y(q[2])
                         /\ au(q[1]) # au(q[2])
                         /\ RatioAtLeast(au(q[1]), au(q[2]), AuthorThreshold)}}
        urlHits ==
            {Msg("fuzzy_url_path", records[p[1]].id, RatioPct(u(p[1]).path, u(p[2]).path), records[p[2]].id) :
                p \in {q \in pairs :
                         /\ u(q[1]).url # <<>> /\ u(q[2]).url # <<>>
                         /\ u(q[1]).netloc # <<>>
                         /\ u(q[1]).netloc = u(q[2]).netloc
                         /\ u(q[1]).path # <<>> /\ u(q[2]).path # <<>>
                         /\ u(q[1]).path # u(q[2]).path
                         /\ RatioAtLeast(u(q[1]).path, u(q[2]).path, PathThreshold)}}
    IN  titleHits \cup authorHits \cup urlHits

\* The rank of a fuzzy line's fixed prefix in string order:
\* "Fuzzy URL..." < "Fuzzy author..." < "Fuzzy title...".
FuzzyKindRank(kind) ==
    CASE kind = "fuzzy_url_path" -> 1
      [] kind = "fuzzy_author_year" -> 2
      [] OTHER -> 3

\* String order of two fuzzy lines: prefix, printed ratio, then "a ~ b".
FuzzyLess(m1, m2) ==
    LET tail(m) == m.id \o <<" ", "~", " ">> \o m.first
    IN  \/ FuzzyKindRank(m1.kind) < FuzzyKindRank(m2.kind)
        \/ /\ FuzzyKindRank(m1.kind) = FuzzyKindRank(m2.kind)
           /\ \/ m1.val < m2.val
              \/ m1.val = m2.val /\ StrLess(tail(m1), tail(m2))

RECURSIVE SortedMsgs(_)
\* sorted(warns)
SortedMsgs(S) ==
    IF S = {} THEN <<>>
    ELSE LET m == CHOOSE x \in S : \A z \in S : z = x \/ FuzzyLess(x, z)
         IN  <<m>> \o SortedMsgs(S \ {m})

\* validate_sources.fuzzy_warnings
fuzzy_warnings(records) == SortedMsgs(FuzzyWarningSet(records))

(***************************************************************************)
(* ui_local.py: candidates, target resolution and the candidate pre-check. *)
(***************************************************************************)

\* A request payload: mode is "add", "edit" or anything else; record holds
\* the form fields, record.bib the bib fields.
BlankForm ==
    [source_key |-> <<>>, section |-> <<>>, aggsource |-> <<>>, legend |-> <<>>,
     data_type |-> <<>>, link |-> <<>>, ref_link |-> <<>>,
     inclusion_in_warehouse |-> <<>>, multigeo_reference |-> <<>>,
     metadata |-> <<>>, metadatalink |-> <<>>, editor_name |-> <<>>,
     bib |-> BlankBib]

BlankPayload ==
    [mode |-> "add", target |-> <<>>, change_reason |-> <<>>,
     key_rename_confirmed |-> FALSE, editor_name |-> <<>>, record |-> BlankForm]

Misc == <<"m","i","s","c">>

\* Line 346: normalize_whitespace(bib.get("entry_type", "misc")) or "misc".
CandidateEntryType(bib) ==
    IF normalize_whitespace(bib.entry_type) # <<>>
    THEN normalize_whitespace(bib.entry_type) ELSE Misc

\* Lines 330: the editor name of a payload.
EditorName(payload) ==
    IF normalize_whitespace(payload.editor_name) # <<>>
    THEN normalize_whitespace(payload.editor_name)
    ELSE normalize_whitespace(payload.record.editor_name)

\* ui_local.make_candidate: the candidate as a record (the keys the candidate
\* dict lacks read as ""); its editor_name is EditorName(payload).
make_candidate(payload) ==
    LET record == payload.record
        source_key == normalize_whitespace(record.source_key)
        bib == record.bib
        link_value == normalize_whitespace(record.link)
        bib_url0 == normalize_whitespace(bib.url)
        bib_url_value == IF payload.mode = "add"
                         THEN (IF link_value # <<>> THEN link_value ELSE bib_url0)
                         ELSE bib_url0
    IN  [BlankRecord EXCEPT
            !.section = normalize_whitespace(record.section),
            !.aggsource = normalize_whitespace(record.aggsource),
            !.legend = normalize_whitespace(record.legend),
            !.source = source_key,
            !.citekey = source_key,
            !.data_type = normalize_whitespace(record.data_type),
            !.link = link_value,
            !.ref_link = normalize_whitespace(record.ref_link),
            !.inclusion_in_warehouse = normalize_whitespace(record.inclusion_in_warehouse),
            !.multigeo_reference = normalize_whitespace(record.multigeo_reference),
            !.metadata = normalize_whitespace(record.metadata),
            !.metadatalink = normalize_whitespace(record.metadatalink),
            !.bib = [f \in DOMAIN BlankBib |->
                        IF f = "extra_fields" THEN bib.extra_fields
                        ELSE IF f = "entry_type" THEN CandidateEntryType(bib)
                        ELSE IF f = "url" THEN bib_url_value
                        ELSE normalize_whitespace(bib[f])]]

\* ui_local.find_target: the positions of the records that match.
find_target(records, target) ==
    LET t == normalize_whitespace(target)
    IN  {i \in 1..Len(records) :
            records[i].id = t \/ records[i].source = t \/ records[i].citekey = t}

\* Line 172: the canonical URL of an existing record.
RecordUrl(rec) == normalize_url(IF rec.bib.url # <<>> THEN rec.bib.url ELSE rec.link)

\* Line 167: the record the duplicate scan skips.
SkipsTarget(rec, mode, target_id) ==
    mode = "edit" /\ target_id # <<>> /\ rec.id = target_id

\* A scan that reports no duplicate.
DuplicateErrorsNone(records, candidate, mode, target_id) == {}

\* Lines 158-191: the exact-duplicate messages of validate_candidate.
DuplicateErrors(records, candidate, mode, target_id) ==
    LET bib == candidate.bib
        bib_url == normalize_whitespace(bib.url)
        link == normalize_whitespace(candidate.link)
        c_source == normalize_whitespace(candidate.source)
        c_citekey == normalize_whitespace(candidate.citekey)
        c_url == normalize_url(IF bib_url # <<>> THEN bib_url ELSE link)
        c_title == normalize_text(bib.title)
        c_year == normalize_whitespace(bib.year)
        scanned == {i \in 1..Len(records) : ~SkipsTarget(records[i], mode, target_id)}
    IN  {Msg("dup_source", records[i].id, c_source, <<>>) :
            i \in {j \in scanned : c_source # <<>>
                       /\ c_source = normalize_whitespace(records[j].source)}}
        \cup
        {Msg("dup_citekey", records[i].id, c_citekey, <<>>) :
            i \in {j \in scanned : c_citekey # <<>>
                       /\ c_citekey = normalize_whitespace(records[j].citekey)}}
        \cup
        {Msg("dup_url", records[i].id, c_url, <<>>) :
            i \in {j \in scanned : c_url # <<>> /\ c_url = RecordUrl(records[j])}}
        \cup
        {Msg("dup_title_year", records[i].id, c_title \o <<",", " ">> \o c_year, <<>>) :
            i \in {j \in scanned : c_title # <<>> /\ c_year # <<>>
                       /\ c_title = normalize_text(records[j].bib.title)
                       /\ c_year = normalize_whitespace(records[j].bib.year)}}

\* Lines 90-156: the required-field, consistency, URL and year messages of
\* validate_candidate.
StructuralErrors(candidate, editor_name) ==
    LET bib == candidate.bib
        link == normalize_whitespace(candidate.link)
        ref_link == normalize_whitespace(candidate.ref_link)
        bib_url == normalize_whitespace(bib.url)
        year == normalize_whitespace(bib.year)
    IN  {Msg("missing_required", <<>>, <<k>>, <<>>) :
            k \in {f \in {"section", "aggsource", "legend", "source", "citekey", "link"} :
                      normalize_whitespace(candidate[f]) = <<>>}}
        \cup (IF normalize_whitespace(editor_name) = <<>>
              THEN {Msg("missing_required", <<>>, <<"editor_name">>, <<>>)} ELSE {})
        \cup (IF candidate.source # candidate.citekey
              THEN {Msg("source_citekey_differ", <<>>, <<>>, <<>>)} ELSE {})
        \cup {Msg("missing_bib_required", <<>>, <<k>>, <<>>) :
                k \in {f \in {"entry_type", "title", "author", "year"} :
                          normalize_whitespace(bib[f]) = <<>>}}
        \cup (IF link # <<>> /\ ~URL_RE_match(link)
              THEN {Msg("invalid_link", <<>>, link, <<>>)} ELSE {})
        \cup (IF ref_link # <<>> /\ ~URL_RE_match(ref_link)
              THEN {Msg("invalid_ref_link", <<>>, ref_link, <<>>)} ELSE {})
        \cup (IF bib_url # <<>> /\ ~URL_RE_match(bib_url)
              THEN {Msg("invalid_bib_url", <<>>, bib_url, <<>>)} ELSE {})
        \cup (IF link = <<>> /\ bib_url = <<>>
              THEN {Msg("missing_url", <<>>, <<>>, <<>>)} ELSE {})
        \cup (IF year # <<>> /\ ~YEAR_RE_match(year)
              THEN {Msg("year_must_be_YYYY", <<>>, year, <<>>)} ELSE {})

\* ui_local.validate_candidate: check["errors"] as a set (the code sorts and
\* de-duplicates the list) and check["warnings"].
validate_candidate(records, candidate, editor_name, mode, target_id) ==
    LET doi == normalize_whitespace(candidate.bib.doi)
    IN  [errors |-> StructuralErrors(candidate, editor_name)
                    \cup DuplicateErrors(records, candidate, mode, target_id),
         warnings |-> IF doi # <<>> /\ ~DOI_RE_match(doi)
                      THEN {Msg("doi_unusual", <<>>, doi, <<>>)} ELSE {}]

RECURSIVE DashRuns(_)
\* re.sub(r"[^A-Za-z0-9]+", "-", s): every run of other characters becomes "-".
DashRuns(s) ==
    IF s = <<>> THEN s
    ELSE IF IsAlnum(Head(s)) THEN <<Head(s)>> \o DashRuns(Tail(s))
    ELSE IF Len(s) > 1 /\ ~IsAlnum(s[2]) THEN DashRuns(Tail(s))
    ELSE <<"-">> \o DashRuns(Tail(s))

RECURSIVE StripDash(_)
\* s.strip("-")
StripDash(s) ==
    IF s = <<>> THEN s
    ELSE IF Head(s) = "-" THEN StripDash(Tail(s))
    ELSE IF s[Len(s)] = "-" THEN StripDash(SubSeq(s, 1, Len(s) - 1))
    ELSE s

\* Line 513: the id of a new record.
NewId(source) == <<"s","r","c","-">> \o Lower(StripDash(DashRuns(Strip(source))))

\* Lines 512-537: the record an add appends.
NewRecord(candidate, editor_name, now) ==
    [candidate EXCEPT
        !.id = NewId(candidate.source),
        !.created_at = now, !.updated_at = now,
        !.created_by = editor_name, !.updated_by = editor_name]

TopFieldSet == SeqToSet(TopFields)

\* Lines 469-470 and 476-477: a field after an edit, given the candidate's value.
MergeField(old, new) == IF new # <<>> THEN new ELSE old

\* An edit that also derives the id again from the source.
UpdatedRecordNewId(rec, candidate, editor_name, now) ==
    [f \in DOMAIN rec |->
        IF f = "id" THEN NewId(MergeField(rec.source, candidate.source))
        ELSE IF f \in TopFieldSet THEN MergeField(rec[f], candidate[f])
        ELSE IF f = "bib"
             THEN [b \in DOMAIN rec.bib |->
                      IF b = "extra_fields" THEN rec.bib[b]
                      ELSE MergeField(rec.bib[b], candidate.bib[b])]
        ELSE IF f = "updated_at" THEN now
        ELSE IF f = "updated_by" THEN editor_name
        ELSE rec[f]]

\* Lines 463-480: the edit's `updated` copy of the target record.
UpdatedRecord(rec, candidate, editor_name, now) ==
    [f \in DOMAIN rec |->
        IF f \in TopFieldSet THEN MergeField(rec[f], candidate[f])
        ELSE IF f = "bib"
             THEN [b \in DOMAIN rec.bib |->
                      IF b = "extra_fields" THEN rec.bib[b]
                      ELSE MergeField(rec.bib[b], candidate.bib[b])]
        ELSE IF f = "updated_at" THEN now
        ELSE IF f = "updated_by" THEN editor_name
        ELSE rec[f]]


\* Line 510: the reason an add without change_reason is logged with
\* ("Added via local UI", abridged).
AddedViaLocalUI == <<"A","d","d","e","d">>

\* Line 1256: the reason a delete without change_reason is logged with
\* ("Deleted via local UI", abridged).
DeletedViaLocalUI == <<"D","e","l","e","t","e","d">>

\* Lines 438-490 and 509-541 of apply_payload: everything up to the first
\* mutation.  raise is "" when the call goes on to mutate, else the reason of
\* the ValueError; idx is the position of the edit target (0 for an add),
\* rec the record to store there or to append, check the candidate check.
ApplyOutcome(records, payload, now) ==
    LET mode == payload.mode
        reason == normalize_whitespace(payload.change_reason)
        breaking == payload.key_rename_confirmed
        candidate == make_candidate(payload)
        editor_name == EditorName(payload)
        hits == find_target(records, payload.target)
        idx == IF Cardinality(hits) = 1 THEN CHOOSE i \in hits : TRUE ELSE 0
        rec == IF idx > 0 THEN records[idx] ELSE BlankRecord
        updated == UpdatedRecord(rec, candidate, editor_name, now)
        changed_key == rec.source # updated.source \/ rec.citekey # updated.citekey
        editCheck == validate_candidate(records, updated, editor_name, "edit", rec.id)
        addCheck == validate_candidate(records, candidate, editor_name, "add", <<>>)
        none == [errors |-> {}, warnings |-> {}]
        out(why, i, r, c, ck) ==
            [raise |-> why, mode |-> mode, idx |-> i, rec |-> r, check |-> c,
             changed_key |-> ck, before_source |-> rec.source,
             before_citekey |-> rec.citekey,
             reason |-> IF mode = "edit" \/ reason # <<>> THEN reason ELSE AddedViaLocalUI,
             editor_name |-> editor_name, breaking |-> breaking]
    IN  IF editor_name = <<>> THEN out("editor_name", 0, BlankRecord, none, FALSE)
        ELSE IF mode \notin {"add", "edit"} THEN out("mode", 0, BlankRecord, none, FALSE)
        ELSE IF mode = "edit" THEN
            IF reason = <<>> THEN out("change_reason", 0, BlankRecord, none, FALSE)
            ELSE IF Cardinality(hits) # 1 THEN out("target", 0, BlankRecord, none, FALSE)
            ELSE IF changed_key /\ ~breaking
                 THEN out("key_rename", idx, updated, none, changed_key)
            ELSE IF editCheck.errors # {}
                 THEN out("validation", idx, updated, editCheck, changed_key)
            ELSE out("", idx, updated, editCheck, changed_key)
        ELSE
            IF addCheck.errors # {}
            THEN out("validation", 0, NewRecord(candidate, editor_name, now), addCheck, FALSE)
            ELSE out("", 0, NewRecord(candidate, editor_name, now), addCheck, FALSE)

\* Line 492 (rec.update(updated)) and line 543 (records.append(newrec)).
Committed(records, o) ==
    IF o.mode = "edit" THEN [records EXCEPT ![o.idx] = o.rec]
    ELSE Append(records, o.rec)

\* One entry of change_log.yaml (append_change) and of aliases.yaml
\* (append_alias).
ChangeEntry(op, rec_id, reason, actor, now) ==
    [operation |-> op, record_id |-> rec_id, reason |-> reason, actor |-> actor,
     updated_at |-> now]

AliasEntry(alias_type, old, new, reason, now) ==
    [type |-> alias_type, old |-> old, new |-> new, reason |-> reason,
     updated_at |-> now]

\* An append_alias that always writes.
AliasNeverSkipped(old, new) == FALSE

\* Line 47: append_alias returns without writing.
AliasSkipped(old, new) == old = <<>> \/ new = <<>> \/ old = new


(***************************************************************************)
(* The derived artifacts as the artifact pre-check reads them.             *)
(***************************************************************************)

\* common.SOURCES_HEADERS: the columns of the Sources sheet, A to R.
SOURCES_HEADERS ==
    <<"Section", "AggSource", "Legend", "Source", "Data_Type", "Link", "Ref_link",
      "Citekey", "Inclusion_in_Warehouse", "Multigeo_Reference", "Metadata",
      "Metadatalink", "QcommentsforTA", "TAreply", "TAcomments", "ARJcomments",
      "ARJreplies", "SeeAggSourcelisthere">>

\* common.record_to_sources_sheet_row
record_to_sources_sheet_row(record) ==
    [Section |-> record.section, AggSource |-> record.aggsource,
     Legend |-> record.legend, Source |-> record.source,
     Data_Type |-> record.data_type, Link |-> record.link,
     Ref_link |-> record.ref_link, Citekey |-> record.citekey,
     Inclusion_in_Warehouse |-> record.inclusion_in_warehouse,
     Multigeo_Reference |-> record.multigeo_reference,
     Metadata |-> record.metadata, Metadatalink |-> record.metadatalink,
     QcommentsforTA |-> record.qcommentsforta, TAreply |-> record.tareply,
     TAcomments |-> record.tacomments, ARJcomments |-> record.arjcomments,
     ARJreplies |-> record.arjreplies,
     SeeAggSourcelisthere |-> record.seeaggsourcelisthere]

\* build_sources_artifacts.write_bib / parse_bib_entries: the key and the
\* fields of a record's entry that the pre-check reads; a value is rendered
\* stripped, and a blank field is not rendered at all.
BibKey(rec) ==
    IF normalize_whitespace(rec.citekey) # <<>> THEN normalize_whitespace(rec.citekey)
    ELSE normalize_whitespace(rec.source)

BibEntryOf(rec) ==
    [key |-> BibKey(rec), url |-> Strip(rec.bib.url), title |-> Strip(rec.bib.title),
     year |-> Strip(rec.bib.year)]

\* The rows of the Sources sheet and the entries of the .bib file that
\* build_sources_artifacts.main generates from the records.
SheetRows(records) ==
    [i \in 1..Len(records) |-> record_to_sources_sheet_row(records[i])]

BibEntries(records) ==
    LET keyed == SelectSeq(records, LAMBDA r : BibKey(r) # <<>>)
    IN  [i \in 1..Len(keyed) |-> BibEntryOf(keyed[i])]

\* Lines 201-281: the errors of validate_candidate_against_artifacts; a file
\* that does not exist only yields a warning.
ArtifactErrors(dict, bibf, candidate, mode, target) ==
    LET target_norm == normalize_whitespace(target)
        c_source == normalize_whitespace(candidate.source)
        c_citekey == normalize_whitespace(candidate.citekey)
        c_url == normalize_url(IF candidate.bib.url # <<>> THEN candidate.bib.url
                               ELSE candidate.link)
        c_title == normalize_text(candidate.bib.title)
        c_year == normalize_whitespace(candidate.bib.year)
        rows == {i \in 1..Len(dict.rows) :
                    ~(/\ mode = "edit" /\ target_norm # <<>>
                      /\ \/ normalize_whitespace(dict.rows[i].Source) = target_norm
                         \/ normalize_whitespace(dict.rows[i].Citekey) = target_norm)}
        ents == {i \in 1..Len(bibf.rows) :
                    ~(/\ mode = "edit" /\ target_norm # <<>>
                      /\ normalize_whitespace(bibf.rows[i].key) = target_norm)}
        dict_errors ==
            IF ~dict.exists THEN {}
            ELSE {Msg("dict_dup_source", <<>>, c_source, <<>>) :
                     i \in {j \in rows : c_source # <<>>
                                /\ c_source = normalize_whitespace(dict.rows[j].Source)}}
                 \cup {Msg("dict_dup_citekey", <<>>, c_citekey, <<>>) :
                     i \in {j \in rows : c_citekey # <<>>
                                /\ c_citekey = normalize_whitespace(dict.rows[j].Citekey)}}
                 \cup {Msg("dict_dup_link", <<>>, c_url, <<>>) :
                     i \in {j \in rows : c_url # <<>>
                                /\ c_url = normalize_url(dict.rows[j].Link)}}
        bib_errors ==
            IF ~bibf.exists THEN {}
            ELSE {Msg("bib_dup_key", <<>>, c_citekey, <<>>) :
                     i \in {j \in ents : c_citekey # <<>>
                                /\ c_citekey = normalize_whitespace(bibf.rows[j].key)}}
                 \cup {Msg("bib_dup_url", bibf.rows[i].key, c_url, <<>>) :
                     i \in {j \in ents : c_url # <<>>
                                /\ c_url = normalize_url(bibf.rows[j].url)}}
                 \cup {Msg("bib_dup_title_year", bibf.rows[i].key, c_title \o <<",", " ">> \o c_year, <<>>) :
                     i \in {j \in ents : c_title # <<>> /\ c_year # <<>>
                                /\ c_title = normalize_text(bibf.rows[j].title)
                                /\ c_year = normalize_whitespace(bibf.rows[j].year)}}
    IN  dict_errors \cup bib_errors


(***************************************************************************)
(* common.write_sources_sheet over a file system: a package is a list of   *)
(* named entries, complete once its central directory is written (closed). *)
(***************************************************************************)

\* The content of a package entry.  A workbook part lists its sheets and its
\* defined names (the text "Sources!$A$1:$R$<n>" of a name is kept as the
\* sheet it starts with and the row n), a relationships part its targets, a
\* worksheet part its dimension and its rows of cells; raw tells one opaque
\* part from another.
BlankContent ==
    [kind |-> "raw", sheets |-> <<>>, defined |-> <<>>, rels |-> <<>>,
     dimension |-> 0, data |-> <<>>, raw |-> <<>>]

Entry(name, content) == [name |-> name, content |-> content]

NoFile == [exists |-> FALSE, entries |-> <<>>, closed |-> FALSE]

Package(entries) == [exists |-> TRUE, entries |-> entries, closed |-> TRUE]

\* ZipFile.namelist and ZipFile.read: a name missing from the package reads
\* as nothing here, and is a KeyError where the code relies on it.
namelist(file) == [i \in 1..Len(file.entries) |-> file.entries[i].name]

HasEntry(file, name) == \E i \in 1..Len(file.entries) : file.entries[i].name = name

ReadEntry(file, name) ==
    IF HasEntry(file, name)
    THEN file.entries[CHOOSE i \in 1..Len(file.entries) :
                         /\ file.entries[i].name = name
                         /\ \A j \in (i + 1)..Len(file.entries) : file.entries[j].name # name].content
    ELSE BlankContent

WorkbookName == <<"xl", "workbook.xml">>

RelsName == <<"xl", "_rels", "workbook.xml.rels">>

RECURSIVE escape(_)
\* xml.sax.saxutils.escape
escape(v) ==
    IF v = <<>> THEN v
    ELSE (CASE Head(v) = "&" -> <<"&","a","m","p",";">>
            [] Head(v) = "<" -> <<"&","l","t",";">>
            [] Head(v) = ">" -> <<"&","g","t",";">>
            [] OTHER -> <<Head(v)>>) \o escape(Tail(v))

\* The names of SOURCES_HEADERS as text, in column order.
HeaderText ==
    <<<<"S","e","c","t","i","o","n">>,
      <<"A","g","g","S","o","u","r","c","e">>,
      <<"L","e","g","e","n","d">>,
      <<"S","o","u","r","c","e">>,
      <<"D","a","t","a","_","T","y","p","e">>,
      <<"L","i","n","k">>,
      <<"R","e","f","_","l","i","n","k">>,
      <<"C","i","t","e","k","e","y">>,
      <<"I","n","c","l","u","s","i","o","n","_","i","n","_","W","a","r","e","h","o","u","s","e">>,
      <<"M","u","l","t","i","g","e","o","_","R","e","f","e","r","e","n","c","e">>,
      <<"M","e","t","a","d","a","t","a">>,
      <<"M","e","t","a","d","a","t","a","l","i","n","k">>,
      <<"Q","c","o","m","m","e","n","t","s","f","o","r","T","A">>,
      <<"T","A","r","e","p","l","y">>,
      <<"T","A","c","o","m","m","e","n","t","s">>,
      <<"A","R","J","c","o","m","m","e","n","t","s">>,
      <<"A","R","J","r","e","p","l","i","e","s">>,
      <<"S","e","e","A","g","g","S","o","u","r","c","e","l","i","s","t","h","e","r","e">>>>

RECURSIVE column_name(_)
\* common.column_name
column_name(idx) ==
    IF idx <= 0 THEN <<>>
    ELSE column_name((idx - 1) \div 26) \o <<Upper[((idx - 1) % 26) + 1]>>

RECURSIVE IntText(_)
\* str(n) of a natural number
IntText(n) ==
    IF n < 10 THEN <<(<<"0","1","2","3","4","5","6","7","8","9">>)[n + 1]>>
    ELSE IntText(n \div 10) \o IntText(n % 10)

\* common.xml_cell: an inline-string cell, its reference and its escaped text.
xml_cell(col_idx, row_idx, value) ==
    [ref |-> column_name(col_idx) \o IntText(row_idx), t |-> "inlineStr",
     text |-> escape(value)]

\* common.build_sources_sheet_xml: the header row and one row per row given,
\* each a <row r=...> of one cell per column, in column order, with the
\* dimension.
build_sources_sheet_xml(rows) ==
    [BlankContent EXCEPT
        !.kind = "worksheet",
        !.dimension = Len(rows) + 1,
        !.data = [r_idx \in 1..(Len(rows) + 1) |->
                    [r |-> r_idx,
                     cells |-> [c_idx \in 1..Len(SOURCES_HEADERS) |->
                                  xml_cell(c_idx, r_idx,
                                           IF r_idx = 1 THEN HeaderText[c_idx]
                                           ELSE rows[r_idx - 1][SOURCES_HEADERS[c_idx]])]]]]

\* common.update_filter_database_range
update_filter_database_range(workbook_xml, max_row) ==
    [workbook_xml EXCEPT
        !.defined = [i \in 1..Len(workbook_xml.defined) |->
                        IF /\ workbook_xml.defined[i].name = "_xlnm._FilterDatabase"
                           /\ workbook_xml.defined[i].sheet = "Sources"
                        THEN [workbook_xml.defined[i] EXCEPT !.last = max_row]
                        ELSE workbook_xml.defined[i]]]

\* common.locate_sources_sheet: the part of the first sheet named "Sources"
\* that has a relationship id, or a failure (a missing part, a missing
\* relationship, no such sheet).
locate_sources_sheet(zf) ==
    LET workbook == ReadEntry(zf, WorkbookName)
        rels == ReadEntry(zf, RelsName).rels
        named == {i \in 1..Len(workbook.sheets) :
                     workbook.sheets[i].name = "Sources" /\ workbook.sheets[i].rid # ""}
        first == CHOOSE i \in named : \A j \in named : i <= j
        hit == {k \in 1..Len(rels) : rels[k].Id = workbook.sheets[first].rid}
        target == rels[CHOOSE k \in hit : \A j \in hit : j <= k].Target
    IN  IF ~HasEntry(zf, WorkbookName) \/ ~HasEntry(zf, RelsName) \/ named = {} \/ hit = {}
        THEN [ok |-> FALSE, path |-> <<>>]
        ELSE [ok |-> TRUE,
              path |-> IF Len(target) > 1 /\ Head(target) = "xl" THEN target
                       ELSE <<"xl">> \o target]

\* A writer that puts the new package straight at the output path.
tmp_output_in_place(output_xlsx) == output_xlsx

\* Line 417: output_xlsx.with_suffix(output_xlsx.suffix + ".tmp")
tmp_output(output_xlsx) == output_xlsx \o <<".tmp">>

\* A copy loop that writes every other entry empty.
writestr_blank(zin, name, sheet_path, sheet_xml, workbook_xml) ==
    IF name = sheet_path THEN sheet_xml
    ELSE IF name = WorkbookName THEN workbook_xml
    ELSE BlankContent

\* Lines 424-429: what the copy loop writes under a name.
writestr(zin, name, sheet_path, sheet_xml, workbook_xml) ==
    IF name = sheet_path THEN sheet_xml
    ELSE IF name = WorkbookName THEN workbook_xml
    ELSE ReadEntry(zin, name)

\* write_sources_sheet as one call that runs to its end: the package at the
\* output path afterwards (lines 415-430), or the failure of line 419.
write_sources_sheet(zin, rows) ==
    IF ~(zin.exists /\ zin.closed /\ locate_sources_sheet(zin).ok) THEN NoFile
    ELSE Package([i \in 1..Len(zin.entries) |->
                    Entry(zin.entries[i].name,
                          writestr(zin, zin.entries[i].name,
                                   locate_sources_sheet(zin).path,
                                   build_sources_sheet_xml(rows),
                                   update_filter_database_range(
                                       ReadEntry(zin, WorkbookName), Len(rows) + 1)))])

(***************************************************************************)
(* common.read_sources_sheet: the XML parser (xml.etree.ElementTree over   *)
(* expat) on the text of a part, then the rows of the Sources sheet.       *)
(***************************************************************************)

\* Characters the model uses that XML 1.0 does not allow in a document
\* (line 328, ET.fromstring: "not well-formed (invalid token)").
XmlIllegal == {"\f"}

AmpEntity == <<"&","a","m","p",";">>

LtEntity == <<"&","l","t",";">>

GtEntity == <<"&","g","t",";">>

RECURSIVE XmlWellFormed(_)
\* Whether the parser accepts s as character data: no character outside
\* XML's range, no "<", and every "&" the start of an entity reference.
XmlWellFormed(s) ==
    IF s = <<>> THEN TRUE
    ELSE IF Head(s) \in XmlIllegal \/ Head(s) = "<" THEN FALSE
    ELSE IF StartsWith(s, AmpEntity) THEN XmlWellFormed(SubSeq(s, 6, Len(s)))
    ELSE IF StartsWith(s, LtEntity) \/ StartsWith(s, GtEntity)
         THEN XmlWellFormed(SubSeq(s, 5, Len(s)))
    ELSE IF Head(s) = "&" THEN FALSE
    ELSE XmlWellFormed(Tail(s))

RECURSIVE XmlText(_)
\* The character data the parser hands back: entity references replaced,
\* "\r\n" and a lone "\r" turned into "\n" (XML 1.0, 2.11).
XmlText(s) ==
    IF s = <<>> THEN s
    ELSE IF StartsWith(s, AmpEntity) THEN <<"&">> \o XmlText(SubSeq(s, 6, Len(s)))
    ELSE IF StartsWith(s, LtEntity) THEN <<"<">> \o XmlText(SubSeq(s, 5, Len(s)))
    ELSE IF StartsWith(s, GtEntity) THEN <<">">> \o XmlText(SubSeq(s, 5, Len(s)))
    ELSE IF StartsWith(s, <<"\r", "\n">>) THEN <<"\n">> \o XmlText(SubSeq(s, 3, Len(s)))
    ELSE IF Head(s) = "\r" THEN <<"\n">> \o XmlText(Tail(s))
    ELSE <<Head(s)>> \o XmlText(Tail(s))

RECURSIVE DecimalValue(_)
\* int(raw) of a string of digits
DecimalValue(s) ==
    IF s = <<>> THEN 0
    ELSE 10 * DecimalValue(SubSeq(s, 1, Len(s) - 1)) + DigitVal(s[Len(s)])

\* Lines 322-326: the shared strings of the package, none without the part.
SharedStringsName == <<"xl", "sharedStrings.xml">>

SharedStrings(zf) ==
    IF HasEntry(zf, SharedStringsName)
    THEN [i \in 1..Len(ReadEntry(zf, SharedStringsName).data) |->
            XmlText(ReadEntry(zf, SharedStringsName).data[i])]
    ELSE <<>>

\* common.get_cell_value: the text of an inline string, the shared string a
\* cell of type "s" points at, or the cell's own value.
get_cell_value(cell, shared) ==
    IF cell.t = "inlineStr" THEN XmlText(cell.text)
    ELSE IF cell.t = "s" /\ cell.text # <<>> /\ \A i \in 1..Len(cell.text) : cell.text[i] \in Digits
    THEN (IF DecimalValue(cell.text) < Len(shared)
          THEN shared[DecimalValue(cell.text) + 1] ELSE <<>>)
    ELSE XmlText(cell.text)

\* Line 340: re.match(r"[A-Z]+", ref), the column letters a reference starts
\* with; none when it starts with something else.
ColLetters(ref) ==
    LET n == IF \E i \in 1..Len(ref) : ~IsUpper(ref[i])
             THEN (CHOOSE i \in 1..Len(ref) :
                      ~IsUpper(ref[i]) /\ \A j \in 1..(i - 1) : IsUpper(ref[j])) - 1
             ELSE Len(ref)
    IN  SubSeq(ref, 1, n)

\* Lines 337-343: the values of a row by column letters; a later cell of the
\* same column replaces an earlier one.
RowVals(row, shared) ==
    {<<ColLetters(row.cells[i].ref), get_cell_value(row.cells[i], shared)>> :
        i \in {k \in 1..Len(row.cells) :
                 /\ ColLetters(row.cells[k].ref) # <<>>
                 /\ \A j \in (k + 1)..Len(row.cells) :
                       ColLetters(row.cells[j].ref) # ColLetters(row.cells[k].ref)}}

\* Line 355: headers.get(col, SOURCES_HEADERS[idx - 1])
HeaderOf(headers, idx) ==
    IF Has(headers, column_name(idx)) THEN Get(headers, column_name(idx))
    ELSE HeaderText[idx]

\* Line 356: vals.get(col, "")
ValOf(vals, idx) ==
    IF Has(vals, column_name(idx)) THEN Get(vals, column_name(idx)) ELSE <<>>

\* Lines 351-357: the record of a data row, a dict from header to value; a
\* later column under the same header replaces an earlier one.
RowRecord(headers, vals) ==
    {<<HeaderOf(headers, idx), ValOf(vals, idx)>> :
        idx \in {k \in 1..Len(SOURCES_HEADERS) :
                   \A j \in (k + 1)..Len(SOURCES_HEADERS) :
                      HeaderOf(headers, j) # HeaderOf(headers, k)}}

\* Lines 358-359: any_value
AnyValue(vals) ==
    \E idx \in 1..Len(SOURCES_HEADERS) : normalize_whitespace(ValOf(vals, idx)) # <<>>

RECURSIVE ReadRows(_, _, _, _)
RECURSIVE ReadRow(_, _, _, _, _)
\* Lines 344-361 for one row with its values: row 1 sets the headers, a row
\* met while there are no headers is skipped, any other row with a value is
\* returned.
ReadRow(rows, shared, headers, out, vals) ==
    IF Head(rows).r = 1 THEN ReadRows(Tail(rows), shared, vals, out)
    ELSE IF headers = {} \/ ~AnyValue(vals) THEN ReadRows(Tail(rows), shared, headers, out)
    ELSE ReadRows(Tail(rows), shared, headers, Append(out, RowRecord(headers, vals)))

\* Lines 333-361: the loop over the rows of sheetData, in document order.
ReadRows(rows, shared, headers, out) ==
    IF rows = <<>> THEN out
    ELSE ReadRow(rows, shared, headers, out, RowVals(Head(rows), shared))

\* Line 328: whether ET.fromstring accepts the worksheet part.
SheetParses(ws) ==
    /\ ws.kind = "worksheet"
    /\ \A i \in 1..Len(ws.data) : \A j \in 1..Len(ws.data[i].cells) :
          XmlWellFormed(ws.data[i].cells[j].text)

\* common.read_sources_sheet: the rows read, or the exception of a package
\* that cannot be opened, has no Sources sheet or does not parse.
read_sources_sheet(zf) ==
    IF ~(zf.exists /\ zf.closed /\ locate_sources_sheet(zf).ok) THEN [ok |-> FALSE, rows |-> <<>>]
    ELSE IF ~HasEntry(zf, locate_sources_sheet(zf).path) THEN [ok |-> FALSE, rows |-> <<>>]
    ELSE IF ~SheetParses(ReadEntry(zf, locate_sources_sheet(zf).path))
    THEN [ok |-> FALSE, rows |-> <<>>]
    ELSE [ok |-> TRUE,
          rows |-> ReadRows(ReadEntry(zf, locate_sources_sheet(zf).path).data,
                            SharedStrings(zf), {}, <<>>)]

(***************************************************************************)
(* build_sources_artifacts.write_bib and common.render_bib_entry: the text *)
(* of the .bib file, character by character.                               *)
(***************************************************************************)

\* Lines 240-258: the fields rendered, in this order, with their names as
\* text.
ordered_fields ==
    <<<<"title", <<"t","i","t","l","e">>>>,
      <<"author", <<"a","u","t","h","o","r">>>>,
      <<"year", <<"y","e","a","r">>>>,
      <<"month", <<"m","o","n","t","h">>>>,
      <<"journal", <<"j","o","u","r","n","a","l">>>>,
      <<"booktitle", <<"b","o","o","k","t","i","t","l","e">>>>,
      <<"volume", <<"v","o","l","u","m","e">>>>,
      <<"number", <<"n","u","m","b","e","r">>>>,
      <<"pages", <<"p","a","g","e","s">>>>,
      <<"institution", <<"i","n","s","t","i","t","u","t","i","o","n">>>>,
      <<"publisher", <<"p","u","b","l","i","s","h","e","r">>>>,
      <<"doi", <<"d","o","i">>>>,
      <<"url", <<"u","r","l">>>>,
      <<"urldate", <<"u","r","l","d","a","t","e">>>>,
      <<"abstract", <<"a","b","s","t","r","a","c","t">>>>,
      <<"keywords", <<"k","e","y","w","o","r","d","s">>>>,
      <<"note", <<"n","o","t","e">>>>>>

NL == "\n"

RECURSIVE Join(_, _)
\* sep.join(parts)
Join(parts, sep) ==
    IF parts = <<>> THEN <<>>
    ELSE IF Len(parts) = 1 THEN parts[1]
    ELSE parts[1] \o sep \o Join(Tail(parts), sep)

\* common.format_bib_value
format_bib_value(value) ==
    <<"{">> \o Strip([i \in 1..Len(value) |-> IF value[i] = NL THEN " " ELSE value[i]])
            \o <<"}">>

RECURSIVE UnsortedKeys(_)
\* the keys in descending order
UnsortedKeys(keys) ==
    IF keys = {} THEN <<>>
    ELSE LET k == CHOOSE x \in keys : \A y \in keys : ~StrLess(x, y)
         IN  <<k>> \o UnsortedKeys(keys \ {k})

RECURSIVE SortedKeys(_)
\* sorted(extras.keys())
SortedKeys(keys) ==
    IF keys = {} THEN <<>>
    ELSE LET k == CHOOSE x \in keys : \A y \in keys : ~StrLess(y, x)
         IN  <<k>> \o SortedKeys(keys \ {k})

\* Lines 260-270: the (name, value) pairs of an entry, in rendering order; an
\* extra field under the name of an earlier field replaces its value in place.
BibFieldPairs(bib) ==
    LET known == SelectSeq(ordered_fields, LAMBDA f : normalize_whitespace(bib[f[1]]) # <<>>)
        base == [i \in 1..Len(known) |-> <<known[i][2], bib[known[i][1]]>>]
        extras == SelectSeq(SortedKeys({p[1] : p \in bib.extra_fields}),
                            LAMBDA k : normalize_whitespace(Get(bib.extra_fields, k)) # <<>>)
        val(k) == normalize_whitespace(Get(bib.extra_fields, k))
        overridden == [i \in 1..Len(base) |->
                          IF base[i][1] \in SeqToSet(extras)
                          THEN <<base[i][1], val(base[i][1])>> ELSE base[i]]
        fresh == SelectSeq(extras, LAMBDA k : \A i \in 1..Len(base) : base[i][1] # k)
    IN  overridden \o [i \in 1..Len(fresh) |-> <<fresh[i], val(fresh[i])>>]

\* common.render_bib_entry
render_bib_entry(key, record) ==
    LET bib == record.bib
        entry_type == IF Lower(Strip(bib.entry_type)) # <<>>
                      THEN Lower(Strip(bib.entry_type)) ELSE Misc
        fields == BibFieldPairs(bib)
        lines == <<<<"@">> \o entry_type \o <<"{">> \o key \o <<",">>>>
                 \o [i \in 1..Len(fields) |->
                        <<" ", " ">> \o fields[i][1] \o <<" ", "=", " ">>
                        \o format_bib_value(fields[i][2])
                        \o (IF i # Len(fields) THEN <<",">> ELSE <<>>)]
                 \o <<<<"}">>>>
    IN  Join(lines, <<NL>>)

\* Lines 18-25 of write_bib: the text written.
BibText(records) ==
    LET keyed == SelectSeq(records, LAMBDA r : BibKey(r) # <<>>)
        entries == [i \in 1..Len(keyed) |-> render_bib_entry(BibKey(keyed[i]), keyed[i])]
    IN  Strip(Join(entries, <<NL, NL>>)) \o <<NL>>

\* A .bib file: absent, or the text stored so far.
NoBib == [exists |-> FALSE, text |-> <<>>]

BibFile(text) == [exists |-> TRUE, text |-> text]

\* The end of the piece of text that starts behind position n: the next line
\* end, or the end of the text.
PieceEnd(text, n) ==
    IF \E i \in (n + 1)..Len(text) : text[i] = NL
    THEN CHOOSE i \in (n + 1)..Len(text) :
            text[i] = NL /\ \A j \in (n + 1)..(i - 1) : text[j] # NL
    ELSE Len(text)

(***************************************************************************)
(* common.parse_bib_entries and common.parse_bib_fields.  An OrderedDict   *)
(* is the sequence of its (key, value) pairs in insertion order.           *)
(***************************************************************************)

\* d[k] = v on an OrderedDict: a key already there keeps its place.
OdPut(d, k, v) ==
    IF \E i \in 1..Len(d) : d[i][1] = k
    THEN [i \in 1..Len(d) |-> IF d[i][1] = k THEN <<k, v>> ELSE d[i]]
    ELSE Append(d, <<k, v>>)

\* k in d
OdHas(d, k) == \E i \in 1..Len(d) : d[i][1] = k

\* d.get(k, default)
OdGet(d, k, default) ==
    IF OdHas(d, k) THEN d[CHOOSE i \in 1..Len(d) : d[i][1] = k][2] ELSE default

\* The number of braces open behind position j, depth of them being open in
\* front of position from.
BraceDepth(blob, from, j, depth) ==
    depth + Cardinality({i \in from..j : blob[i] = "{"})
          - Cardinality({i \in from..j : blob[i] = "}"})

\* Lines 204-208: from p on with depth open braces, the position behind the
\* brace that closes the value, or behind the end of the blob when none does.
BraceScan(blob, p, depth) ==
    IF \E j \in p..Len(blob) : BraceDepth(blob, p, j, depth) = 0
    THEN 1 + CHOOSE j \in p..Len(blob) :
                /\ BraceDepth(blob, p, j, depth) = 0
                /\ \A k \in p..(j - 1) : BraceDepth(blob, p, k, depth) # 0
    ELSE Len(blob) + 1

RECURSIVE QuoteScan(_, _)
\* Lines 213-216: the position of the closing quote; a backslash skips the
\* character behind it.
QuoteScan(blob, p) ==
    IF p > Len(blob) \/ blob[p] = "\"" THEN p
    ELSE QuoteScan(blob, IF blob[p] = "\\" THEN p + 2 ELSE p + 1)

\* Lines 200-223: the value that starts at p and the position behind it.
FieldValue(blob, p) ==
    IF blob[p] = "{"
    THEN [value |-> Slice(blob, p + 1, BraceScan(blob, p + 1, 1) - 2),
          p |-> BraceScan(blob, p + 1, 1)]
    ELSE IF blob[p] = "\""
    THEN [value |-> Slice(blob, p + 1, Min(QuoteScan(blob, p + 1) - 1, Len(blob))),
          p |-> QuoteScan(blob, p + 1) + 1]
    ELSE [value |-> Strip(Slice(blob, p, FindAny(blob, {",", NL, "\r"}, p) - 1)),
          p |-> FindAny(blob, {",", NL, "\r"}, p)]

\* Position of the first character at or after p that is not in cs.
SkipChars(blob, cs, p) ==
    IF \E i \in p..Len(blob) : blob[i] \notin cs
    THEN CHOOSE i \in p..Len(blob) : blob[i] \notin cs /\ \A j \in p..(i - 1) : blob[j] \in cs
    ELSE Len(blob) + 1

RECURSIVE FieldsFrom(_, _, _)
RECURSIVE FieldNamed(_, _, _, _)
RECURSIVE FieldStored(_, _, _, _)
\* Lines 225-229: the field is stored and the loop resumes behind the next comma.
FieldStored(blob, name, fv, fields) ==
    IF Find(blob, ",", fv.p) = 0 THEN OdPut(fields, name, Strip(fv.value))
    ELSE FieldsFrom(blob, Find(blob, ",", fv.p) + 1, OdPut(fields, name, Strip(fv.value)))

\* Lines 193-198: the name in front of the "=" at eq and the start of the value.
FieldNamed(blob, p, eq, fields) ==
    IF SkipChars(blob, {" ", NL, "\r", "\t"}, eq + 1) > Len(blob) THEN fields
    ELSE FieldStored(blob, Lower(Strip(Slice(blob, p, eq - 1))),
                     FieldValue(blob, SkipChars(blob, {" ", NL, "\r", "\t"}, eq + 1)), fields)

\* Lines 185-192: one turn of the loop of parse_bib_fields, at position p.
FieldsFrom(blob, p0, fields) ==
    LET p == SkipChars(blob, {" ", NL, "\r", "\t", ","}, p0)
    IN  IF p > Len(blob) \/ Find(blob, "=", p) = 0 THEN fields
        ELSE FieldNamed(blob, p, Find(blob, "=", p), fields)

\* common.parse_bib_fields
parse_bib_fields(blob) == FieldsFrom(blob, 1, <<>>)

\* Lines 158-167: the position of the brace that closes the entry opened in
\* front of j, or behind the end of the text.
EntryEnd(text, j, depth) ==
    IF \E k \in j..Len(text) : BraceDepth(text, j, k, depth) = 0
    THEN BraceScan(text, j, depth) - 1
    ELSE Len(text) + 1

RECURSIVE EntriesFrom(_, _, _)
RECURSIVE EntryRead(_, _, _, _, _)
\* Lines 168-176: the entry between brace and j is split at its first comma
\* into key and fields; an entry without a comma is skipped.
EntryRead(text, at, brace, j, entries) ==
    LET raw == Slice(text, brace + 1, j - 1)
        comma == Find(raw, ",", 1)
    IN  IF comma = 0 THEN EntriesFrom(text, j + 1, entries)
        ELSE EntriesFrom(text, j + 1,
                 OdPut(entries, Strip(Slice(raw, 1, comma - 1)),
                       [entry_type |-> Lower(Strip(Slice(text, at + 1, brace - 1))),
                        fields |-> parse_bib_fields(Slice(raw, comma + 1, Len(raw)))]))

\* Lines 150-157: one turn of the loop of parse_bib_entries, from position i.
EntriesFrom(text, i, entries) ==
    IF Find(text, "@", i) = 0 \/ Find(text, "{", Find(text, "@", i)) = 0 THEN entries
    ELSE EntryRead(text, Find(text, "@", i), Find(text, "{", Find(text, "@", i)),
                   EntryEnd(text, Find(text, "{", Find(text, "@", i)) + 1, 1), entries)

\* common.parse_bib_entries
parse_bib_entries(text) == EntriesFrom(text, 1, <<>>)

(***************************************************************************)
(* ui_local.parse_bib_paste and bootstrap_registry.map_row: a parsed       *)
(* entry becomes the bib of a record.                                      *)
(***************************************************************************)

\* The seventeen field names both functions list, as text.
RecognizedNames == {ordered_fields[i][2] : i \in 1..Len(ordered_fields)}

\* The text of the name of a recognized field.
FieldText(f) == ordered_fields[CHOOSE i \in 1..Len(ordered_fields) : ordered_fields[i][1] = f][2]

\* ui_local.py lines 312-315 / bootstrap_registry.py lines 30-51: the fields
\* under any other name.
ExtraFieldsNone(fields) == {}

ExtraFields(fields) ==
    {fields[i] : i \in {k \in 1..Len(fields) : fields[k][1] \notin RecognizedNames}}

\* ui_local.parse_bib_paste: the first entry of the text, or ValueError.
parse_bib_paste(text) ==
    IF parse_bib_entries(text) = <<>>
    THEN [raise |-> "ValueError", source_key |-> <<>>, bib |-> BlankBib]
    ELSE [raise |-> "",
          source_key |-> parse_bib_entries(text)[1][1],
          bib |-> [f \in DOMAIN BlankBib |->
                     IF f = "entry_type" THEN parse_bib_entries(text)[1][2].entry_type
                     ELSE IF f = "extra_fields"
                     THEN ExtraFields(parse_bib_entries(text)[1][2].fields)
                     ELSE OdGet(parse_bib_entries(text)[1][2].fields, FieldText(f), <<>>)]]

\* bootstrap_registry.slugify
slugify(value) ==
    IF Lower(StripDash(DashRuns(Strip(value)))) = <<>> THEN <<"s","o","u","r","c","e">>
    ELSE Lower(StripDash(DashRuns(Strip(value))))

\* (row.get(header) or "").strip() for the header of column idx.
RowCol(row, idx) == Strip(IF Has(row, HeaderText[idx]) THEN Get(row, HeaderText[idx]) ELSE <<>>)

\* bootstrap_registry.py lines 24-26: the key under which the row's entry
\* is looked up.
RowKey(row) == IF RowCol(row, 8) # <<>> THEN RowCol(row, 8) ELSE RowCol(row, 4)

\* Lines 75-94: the value a recognized field gets when the entry lacks it.
BibDefault(row, f) ==
    IF f = "title" THEN (IF Has(row, HeaderText[3]) THEN Get(row, HeaderText[3]) ELSE <<>>)
    ELSE IF f = "author" THEN <<"U","n","k","n","o","w","n">>
    ELSE IF f = "year" THEN <<"1","9","0","0">>
    ELSE IF f = "url" THEN (IF Has(row, HeaderText[6]) THEN Get(row, HeaderText[6]) ELSE <<>>)
    ELSE IF f = "keywords"
    THEN <<"D","a","t","a"," ","S","o","u","r","c","e","s",":"," ",
           "U","n","c","l","a","s","s","i","f","i","e","d">>
    ELSE <<>>

\* Lines 73-96: the bib of the record, from the entry found for the row.
RowBib(row, bib) ==
    [f \in DOMAIN BlankBib |->
        IF f = "entry_type" THEN bib.entry_type
        ELSE IF f = "extra_fields" THEN ExtraFields(bib.fields)
        ELSE Strip(OdGet(bib.fields, FieldText(f), BibDefault(row, f)))]

\* Line 54: the link of the record.
RowLink(row, fields) ==
    IF RowCol(row, 6) # <<>> THEN RowCol(row, 6)
    ELSE IF Strip(OdGet(fields, FieldText("url"), <<>>)) # <<>>
    THEN Strip(OdGet(fields, FieldText("url"), <<>>))
    ELSE RowCol(row, 7)

\* bootstrap_registry.map_row; now is the reading of the clock.
map_row(row, bib_map, now) ==
    [BlankRecord EXCEPT
        !.id = <<"s","r","c","-">>
               \o slugify(IF RowCol(row, 4) # <<>> THEN RowCol(row, 4) ELSE RowKey(row)),
        !.section = RowCol(row, 1), !.aggsource = RowCol(row, 2),
        !.legend = RowCol(row, 3), !.source = RowCol(row, 4),
        !.data_type = RowCol(row, 5),
        !.link = RowLink(row, OdGet(bib_map, RowKey(row), [entry_type |-> Misc, fields |-> <<>>]).fields),
        !.ref_link = RowCol(row, 7), !.citekey = RowKey(row),
        !.inclusion_in_warehouse = RowCol(row, 9), !.multigeo_reference = RowCol(row, 10),
        !.metadata = RowCol(row, 11), !.metadatalink = RowCol(row, 12),
        !.qcommentsforta = RowCol(row, 13), !.tareply = RowCol(row, 14),
        !.tacomments = RowCol(row, 15), !.arjcomments = RowCol(row, 16),
        !.arjreplies = RowCol(row, 17), !.seeaggsourcelisthere = RowCol(row, 18),
        !.bib = RowBib(row, OdGet(bib_map, RowKey(row), [entry_type |-> Misc, fields |-> <<>>])),
        !.created_at = now, !.updated_at = now]

(***************************************************************************)
(* validate_sources.main: validate_schema_shape, validate_records as one   *)
(* call, validate_aliases and validate_change_log.  The schema, the        *)
(* aliases file and the change log are data the run is given.              *)
(***************************************************************************)

RECURSIVE ValidateFrom(_, _, _)
\* Lines 58-127: the lists and maps after one iteration, out being what the
\* iteration yields, and the loop over the records behind it.
ValidateStep(rest, strict, acc, out) ==
    ValidateFrom(rest, strict,
                 [errors |-> acc.errors \o out.errors, warns |-> acc.warns \o out.warns,
                  by_source |-> out.by_source, by_citekey |-> out.by_citekey,
                  by_url |-> out.by_url, by_title_year |-> out.by_title_year])

\* Lines 50-127 of validate_records: the loop over the sorted records, from
\* the lists and maps of the records before.
ValidateFrom(records, strict, acc) ==
    IF records = <<>> THEN acc
    ELSE ValidateStep(Tail(records), strict, acc,
                      RecordIssues(Head(records), strict, acc.by_source, acc.by_citekey,
                                   acc.by_url, acc.by_title_year))

\* Lines 129-133: the errors of the ValidationError raised (none when the
\* call returns) and the warnings collected.
ValidateResult(records, final) ==
    [errors |-> final.errors, warns |-> final.warns \o fuzzy_warnings(records)]

\* validate_sources.validate_records
validate_records(records, strict) ==
    ValidateResult(records_sorted(records),
                   ValidateFrom(records_sorted(records), strict,
                                [errors |-> <<>>, warns |-> <<>>, by_source |-> {},
                                 by_citekey |-> {}, by_url |-> {}, by_title_year |-> {}]))

\* Line 35: str(rec.get(field, "")) is blank; a bib is a dict, never blank as text.
FieldBlank(rec, field) ==
    IF field = "bib" THEN FALSE
    ELSE IF field \in DOMAIN rec THEN normalize_whitespace(rec[field]) = <<>>
    ELSE TRUE

\* Lines 33-37: the first (record number, field) the schema requires and the
\* record lacks, in the order of the loops.
FirstShapeGap(records, required) ==
    CHOOSE p \in (1..Len(records)) \X (1..Len(required)) :
        /\ FieldBlank(records[p[1]], required[p[2]])
        /\ \A q \in (1..Len(records)) \X (1..Len(required)) :
              FieldBlank(records[q[1]], required[q[2]]) =>
                 (p[1] < q[1] \/ (p[1] = q[1] /\ p[2] <= q[2]))

\* validate_sources.validate_schema_shape: the errors of the ValidationError
\* it raises, none when it returns.  keys are the top-level keys of the registry.
validate_schema_shape(keys, records, schema) ==
    IF \E i \in 1..Len(schema.required) : schema.required[i] \notin keys
    THEN <<Msg("missing_top_level_key", <<>>,
               schema.required[CHOOSE i \in 1..Len(schema.required) :
                                  /\ schema.required[i] \notin keys
                                  /\ \A j \in 1..(i - 1) : schema.required[j] \in keys],
               <<>>)>>
    ELSE IF \E i \in 1..Len(records) : \E j \in 1..Len(schema.record_required) :
               FieldBlank(records[i], schema.record_required[j])
    THEN <<Msg("record_missing_required_field",
               FirstShapeGap(records, schema.record_required)[1],
               schema.record_required[FirstShapeGap(records, schema.record_required)[2]],
               <<>>)>>
    ELSE <<>>

\* A YAML file of entries: absent or empty, or a document with or without
\* the key that holds the entries.
NoData == [exists |-> FALSE, keyed |-> FALSE, entries |-> <<>>]

\* Whether a field of an alias or change-log entry is blank as text; the
\* type and the operation are words, the stamp is a clock reading.
EntryFieldBlank(entry, req) ==
    IF req \in {"type", "operation"} THEN entry[req] = ""
    ELSE IF req = "updated_at" THEN FALSE
    ELSE normalize_whitespace(entry[req]) = <<>>

\* Lines 213-216 and 225-228: the first entry that lacks one of the fields
\* and the first field it lacks.
FirstEntryGap(entries, reqs) ==
    CHOOSE p \in (1..Len(entries)) \X (1..Len(reqs)) :
        /\ EntryFieldBlank(entries[p[1]], reqs[p[2]])
        /\ \A q \in (1..Len(entries)) \X (1..Len(reqs)) :
              EntryFieldBlank(entries[q[1]], reqs[q[2]]) =>
                 (p[1] < q[1] \/ (p[1] = q[1] /\ p[2] <= q[2]))

\* validate_aliases / validate_change_log on the data and the fields an
\* entry must have: the errors of the ValidationError raised.
ValidateEntries(data, reqs, kind) ==
    IF ~data.exists THEN <<>>
    ELSE IF ~data.keyed THEN <<Msg(kind \o "_must_contain_array", <<>>, <<>>, <<>>)>>
    ELSE IF \E i \in 1..Len(data.entries) : \E j \in 1..Len(reqs) :
               EntryFieldBlank(data.entries[i], reqs[j])
    THEN <<Msg(kind \o "_entry_missing_field", FirstEntryGap(data.entries, reqs)[1],
               reqs[FirstEntryGap(data.entries, reqs)[2]], <<>>)>>
    ELSE <<>>

\* validate_sources.validate_aliases
validate_aliases(data) ==
    ValidateEntries(data, <<"type", "old", "new", "reason", "updated_at">>, "aliases")

\* validate_sources.validate_change_log
validate_change_log(data) ==
    ValidateEntries(data, <<"operation", "record_id", "reason", "updated_at">>, "change_log")

(***************************************************************************)
(* State.                                                                  *)
(***************************************************************************)

VARIABLES
    \* validate_records: the registry given, the flag, the loop position, the
    \* two message lists and the four seen-value maps
    v_registry, strict, v_idx, errors, warns,
    by_source, by_citekey, by_url, by_title_year,
    \* "off" | "loop" | "raised" | "returned"
    v_pc,
    \* the local UI: sources.yaml (its records), change_log.yaml and
    \* aliases.yaml (their entries) and the two generated artifacts, as stored
    \* on disk, and the local state of every handler thread
    registry, changelog, aliases, dictionary, bibfile, th,
    \* write_sources_sheet: the files by path, the arguments, the names of the
    \* opened template, the two parts computed up front, the loop position,
    \* the program counter and the output file as the call found it
    fs, s_template, s_rows, s_names, s_sheet_path, s_workbook_xml, s_i, s_pc, s_old,
    \* write_bib: the records given, the file, the text to write, the number
    \* of its pieces written, the program counter and the file as found
    b_records, b_file, b_text, b_n, b_pc, b_old,
    \* read_sources_sheet: the package read, the rows write_sources_sheet was
    \* given when it wrote the package ("write") or nothing for a package made
    \* elsewhere ("given"), the result and the program counter
    rd_file, rd_rows, rd_from, rd_out, rd_pc,
    \* the bibliography codec: the key and bib rendered ("bib") or nothing for
    \* a text pasted ("text"), the sheet row map_row is given, the text, the
    \* entries parsed from it, the results of parse_bib_paste and map_row and
    \* the program counter
    cd_from, cd_key, cd_bib, cd_row, cd_text, cd_entries, cd_paste, cd_record, cd_pc,
    \* normalize_url on two URLs: each URL as its parts and as text, and its
    \* normal form with the flag that it has been computed, and the normal form
    \* of that normal form
    u_parts, u_text, u_norm, u_again,
    \* validate_sources.main: the top-level keys and the records of the
    \* registry, the schema, the flag, the aliases file and the change log,
    \* the errors of the ValidationError that ended the run, the warnings
    \* validate_records returned and the program counter
    r_keys, r_records, r_schema, r_strict, r_aliases, r_changes, r_errors, r_warnings, r_pc,
    \* parse_bib_entries step by step: the kinds of the blocks of the text, the
    \* text, the locals i, at, brace, j, depth, key and entries; the locals
    \* of its call of parse_bib_fields: blob, p, start, depth, name, value and
    \* fields; and the program counter
    scan_blocks, pe_text, pe_i, pe_at, pe_brace, pe_j, pe_depth, pe_key, pe_entries,
    pf_blob, pf_p, pf_start, pf_depth, pf_name, pf_value, pf_fields, scan_pc,
    \* main of ui_local: the state of the HTTP server httpd and the seconds
    \* gone since app.last_ping
    httpd, quiet,
    \* check_generated_artifacts after build_sources_artifacts: the records of
    \* the registry, the committed dictionary and .bib file, the two files
    \* regenerated in the temporary directory, what happened last before the
    \* check, the exception raised and the program counter
    ga_records, ga_dictionary, ga_bib, ga_tmp_dict, ga_tmp_bib, ga_since, ga_error, ga_pc

validateVars ==
    <<v_registry, strict, v_idx, errors, warns,
      by_source, by_citekey, by_url, by_title_year, v_pc>>

serverVars == <<registry, changelog, aliases, dictionary, bibfile, th>>

sheetVars ==
    <<fs, s_template, s_rows, s_names, s_sheet_path, s_workbook_xml, s_i, s_pc, s_old>>

bibVars == <<b_records, b_file, b_text, b_n, b_pc, b_old>>

readVars == <<rd_file, rd_rows, rd_from, rd_out, rd_pc>>

codecVars ==
    <<cd_from, cd_key, cd_bib, cd_row, cd_text, cd_entries, cd_paste, cd_record, cd_pc>>

urlVars == <<u_parts, u_text, u_norm, u_again>>

runVars ==
    <<r_keys, r_records, r_schema, r_strict, r_aliases, r_changes, r_errors, r_warnings,
      r_pc>>

scanVars ==
    <<scan_blocks, pe_text, pe_i, pe_at, pe_brace, pe_j, pe_depth, pe_key, pe_entries,
      pf_blob, pf_p, pf_start, pf_depth, pf_name, pf_value, pf_fields, scan_pc>>

hostVars == <<httpd, quiet>>

driftVars ==
    <<ga_records, ga_dictionary, ga_bib, ga_tmp_dict, ga_tmp_bib, ga_since, ga_error, ga_pc>>

vars ==
    <<validateVars, serverVars, sheetVars, bibVars,
      readVars, codecVars, urlVars, runVars,
      scanVars, hostVars, driftVars>>

\* What a step of one component leaves alone.
notValidate ==
    <<serverVars, sheetVars, bibVars, readVars,
      codecVars, urlVars, runVars, scanVars,
      hostVars, driftVars>>

notServer ==
    <<validateVars, sheetVars, bibVars, readVars,
      codecVars, urlVars, runVars, scanVars,
      hostVars, driftVars>>

notSheet ==
    <<validateVars, serverVars, bibVars, readVars,
      codecVars, urlVars, runVars, scanVars,
      hostVars, driftVars>>

notBib ==
    <<validateVars, serverVars, sheetVars, readVars,
      codecVars, urlVars, runVars, scanVars,
      hostVars, driftVars>>

notRead ==
    <<validateVars, serverVars, sheetVars, bibVars,
      codecVars, urlVars, runVars, scanVars,
      hostVars, driftVars>>

notCodec ==
    <<validateVars, serverVars, sheetVars, bibVars,
      readVars, urlVars, runVars, scanVars,
      hostVars, driftVars>>

notUrl ==
    <<validateVars, serverVars, sheetVars, bibVars,
      readVars, codecVars, runVars, scanVars,
      hostVars, driftVars>>

notRun ==
    <<validateVars, serverVars, sheetVars, bibVars,
      readVars, codecVars, urlVars, scanVars,
      hostVars, driftVars>>

notScan ==
    <<validateVars, serverVars, sheetVars, bibVars,
      readVars, codecVars, urlVars, runVars,
      hostVars, driftVars>>

\* What a step of the hosting process, the server in it included, leaves
\* alone.
notHost ==
    <<validateVars, sheetVars, bibVars, readVars,
      codecVars, urlVars, runVars, scanVars,
      driftVars>>

notDrift ==
    <<validateVars, serverVars, sheetVars, bibVars,
      readVars, codecVars, urlVars, runVars,
      scanVars, hostVars>>

(***************************************************************************)
(* Registries given to validate_records.                                   *)
(***************************************************************************)

\* Largest number of records in a registry.
MaxRecords == 2

DigitChar(i) == <<"0","1","2","3","4","5","6","7","8","9">>[i + 1]

HttpH == <<"h","t","t","p",":","/","/","h","/">>

\* The i-th well-formed record: its own id, key, link and title, so that two
\* of them collide on nothing.
GoodRecord(i) ==
    [BlankRecord EXCEPT
        !.id = <<"r", DigitChar(i)>>,
        !.source = <<"K", DigitChar(i)>>,
        !.citekey = <<"K", DigitChar(i)>>,
        !.section = <<"s">>, !.aggsource = <<"g">>, !.legend = <<"l">>,
        !.link = HttpH \o <<"p", DigitChar(i)>>,
        !.bib = [BlankBib EXCEPT
                    !.entry_type = <<"m","i","s","c">>,
                    !.title = <<"T", DigitChar(i)>>,
                    !.author = <<"x">>,
                    !.year = <<"2","0","2","0">>,
                    !.keywords = <<"k">>]]

\* What a record of a registry may deviate from the well-formed one in.
Variations ==
    {"good", "src_Eu", "src_eu_spaced", "src_Eu_trail", "ck_Ck", "ck_Ck_spaced",
     "same_link", "same_title", "no_year", "blank", "bad_link_doi",
     "long_title", "long_title_dot", "no_id", "dup_keys"}

Vary(r, v) ==
    CASE v = "src_Eu" -> [r EXCEPT !.source = <<"E","u">>]
      [] v = "src_eu_spaced" -> [r EXCEPT !.source = <<" ","e","u"," ">>]
      [] v = "src_Eu_trail" -> [r EXCEPT !.source = <<"E","u"," ">>]
      [] v = "ck_Ck" -> [r EXCEPT !.citekey = <<"C","k">>]
      [] v = "ck_Ck_spaced" -> [r EXCEPT !.citekey = <<" ","C","k">>]
      [] v = "same_link" -> [r EXCEPT !.link = <<"H","T","T","P",":","/","/","H","/","/","q","/">>]
      [] v = "same_title" -> [r EXCEPT !.bib.title = <<"S","a","m","e">>]
      [] v = "no_year" -> [r EXCEPT !.bib.year = <<>>]
      [] v = "blank" -> [BlankRecord EXCEPT !.id = r.id]
      [] v = "bad_link_doi" -> [r EXCEPT !.link = <<"f","t","p",":","/","/","h">>,
                                         !.bib.doi = <<"1","0",".","1","/","x">>]
      [] v = "long_title" -> [r EXCEPT !.bib.title =
                                      <<"G","l","o","b","a","l"," ","W","e","a","l","t","h">>]
      [] v = "long_title_dot" -> [r EXCEPT !.bib.title =
                                      <<"G","l","o","b","a","l"," ","W","e","a","l","t","h",".">>]
      [] v = "no_id" -> [r EXCEPT !.id = <<>>]
      [] v = "dup_keys" -> [r EXCEPT !.source = <<"E","u">>, !.citekey = <<"E","u">>]
      [] OTHER -> r

Perms(n) == {f \in [1..n -> 1..n] : \A i, j \in 1..n : f[i] = f[j] => i = j}

\* Every registry of at most MaxRecords records: one variation per record,
\* in any order.
Registries ==
    UNION {{[i \in 1..n |-> Vary(GoodRecord(f[i]), vs[f[i]])] :
               vs \in [1..n -> Variations], f \in Perms(n)} : n \in 0..MaxRecords}

(***************************************************************************)
(* validate_records as a state machine: one step per loop iteration, and   *)
(* the step that appends the fuzzy warnings and raises or returns.         *)
(***************************************************************************)

\* Line 41: the list the loop runs over.
ValidationOrder(reg) == records_sorted(reg)

ValidateInit ==
    /\ v_registry \in Registries
    /\ strict \in BOOLEAN
    /\ v_idx = 1
    /\ errors = <<>>
    /\ warns = <<>>
    /\ by_source = {}
    /\ by_citekey = {}
    /\ by_url = {}
    /\ by_title_year = {}
    /\ v_pc = "loop"

ValidateIdle ==
    /\ v_registry = <<>>
    /\ strict = FALSE
    /\ v_idx = 1
    /\ errors = <<>>
    /\ warns = <<>>
    /\ by_source = {}
    /\ by_citekey = {}
    /\ by_url = {}
    /\ by_title_year = {}
    /\ v_pc = "off"

\* Lines 50-127, one iteration.
ValidateRecord ==
    /\ v_pc = "loop"
    /\ v_idx <= Len(v_registry)
    /\ LET out == RecordIssues(ValidationOrder(v_registry)[v_idx], strict,
                               by_source, by_citekey, by_url, by_title_year)
       IN  /\ errors' = errors \o out.errors
           /\ warns' = warns \o out.warns
           /\ by_source' = out.by_source
           /\ by_citekey' = out.by_citekey
           /\ by_url' = out.by_url
           /\ by_title_year' = out.by_title_year
    /\ v_idx' = v_idx + 1
    /\ UNCHANGED <<v_registry, strict, v_pc>>
    /\ UNCHANGED notValidate

\* A call that raises when it has collected any message at all.
RaisesOnAnyMessage(errs, wrns) == errs # <<>> \/ wrns # <<>>

\* Lines 131-132: whether validate_records raises, given its two lists.
Raises(errs, wrns) == errs # <<>>

\* Lines 129-133.
ValidateFinish ==
    /\ v_pc = "loop"
    /\ v_idx > Len(v_registry)
    /\ warns' = warns \o fuzzy_warnings(ValidationOrder(v_registry))
    /\ v_pc' = IF Raises(errors, warns \o fuzzy_warnings(ValidationOrder(v_registry)))
               THEN "raised" ELSE "returned"
    /\ UNCHANGED <<v_registry, strict, v_idx, errors,
                   by_source, by_citekey, by_url, by_title_year>>
    /\ UNCHANGED notValidate

ValidateNext == ValidateRecord \/ ValidateFinish

(***************************************************************************)
(* The local UI: apply_payload and the POST handlers of ui_local.py, one   *)
(* handler thread per request, over the files on disk.                     *)
(***************************************************************************)

\* ThreadingHTTPServer (line 1327) runs every request in a thread of its own.
Threads == {1, 2}

\* The most changelog entries after which apply_payload is still called.
MaxOps == 3

\* The most changelog entries after which the server still takes a request.
MaxServed == 2

\* A file that does not exist / a generated artifact with its rows.
Absent == [exists |-> FALSE, rows |-> <<>>]

Present(rows) == [exists |-> TRUE, rows |-> rows]

NoOutcome ==
    [raise |-> "", mode |-> "", idx |-> 0, rec |-> BlankRecord,
     check |-> [errors |-> {}, warnings |-> {}], changed_key |-> FALSE,
     before_source |-> <<>>, before_citekey |-> <<>>, reason |-> <<>>,
     editor_name |-> <<>>, breaking |-> FALSE]

NoChange == [op |-> "", rec_id |-> <<>>, reason |-> <<>>, actor |-> <<>>]

NoEntry == [reg |-> <<>>, changelog |-> <<>>, aliases |-> <<>>]

\* A thread that serves no request.  via is "call" for a direct call of
\* apply_payload followed by the save of line 1223, "http" for a request;
\* reg is the registry object in memory, loaded the registry as read from
\* disk, entry what apply_payload found when it was entered, data the list
\* append_change / append_alias has read, build the records build_main read.
IdleThread ==
    [pc |-> "idle", via |-> "", op |-> "", payload |-> BlankPayload,
     reg |-> <<>>, loaded |-> <<>>, entry |-> NoEntry, out |-> NoOutcome,
     chg |-> NoChange, now |-> 0, data |-> <<>>, build |-> <<>>,
     resp |-> "none", why |-> ""]

ServerIdle ==
    /\ registry = <<>>
    /\ changelog = <<>>
    /\ aliases = <<>>
    /\ dictionary = Absent
    /\ bibfile = Absent
    /\ th = [t \in Threads |-> IdleThread]

\* common.now_iso as a logical clock: later calls never read an earlier time.
Now == Len(changelog) + 1

Reply(t, resp, why) ==
    th' = [th EXCEPT ![t].pc = "responded", ![t].resp = resp, ![t].why = why]

Goto(t, pc) == th' = [th EXCEPT ![t].pc = pc]

RemoveAt(s, i) == SubSeq(s, 1, i - 1) \o SubSeq(s, i + 1, Len(s))

\* apply_payload called on the registry loaded from disk (lines 1213, 1222).
CallApplyPayload(t, p) ==
    /\ th[t].pc = "idle"
    /\ Len(changelog) < MaxOps
    /\ th' = [th EXCEPT ![t] = [IdleThread EXCEPT
                 !.pc = "apply", !.via = "call", !.op = "apply", !.payload = p,
                 !.reg = registry, !.loaded = registry]]
    /\ UNCHANGED <<registry, changelog, aliases, dictionary, bibfile>>
    /\ UNCHANGED notServer

\* POST /api/apply_and_build, lines 1211-1218.
ApplyAndBuildRequest(t, p) ==
    /\ th[t].pc = "idle"
    /\ Len(changelog) < MaxServed
    /\ th' = [th EXCEPT ![t] = [IdleThread EXCEPT
                 !.pc = "precheck", !.via = "http", !.op = "apply", !.payload = p,
                 !.reg = registry, !.loaded = registry]]
    /\ UNCHANGED <<registry, changelog, aliases, dictionary, bibfile>>

PostApplyAndBuild(t, p) ==
    /\ ApplyAndBuildRequest(t, p)
    /\ UNCHANGED notServer

\* Lines 1219-1221: the artifact pre-check.
PreCheck(t) ==
    /\ th[t].pc = "precheck"
    /\ IF ArtifactErrors(dictionary, bibfile, make_candidate(th[t].payload),
                         th[t].payload.mode, th[t].payload.target) # {}
       THEN Reply(t, "error", "artifacts")
       ELSE Goto(t, "apply")
    /\ UNCHANGED <<registry, changelog, aliases, dictionary, bibfile>>
    /\ UNCHANGED notServer

\* apply_payload up to its first mutation (lines 438-490, 509-541).
ApplyCheck(t) ==
    /\ th[t].pc = "apply"
    /\ LET o == ApplyOutcome(th[t].reg, th[t].payload, Now)
           entered == [reg |-> th[t].reg, changelog |-> changelog, aliases |-> aliases]
       IN  th' = [th EXCEPT
                     ![t].out = o, ![t].now = Now, ![t].entry = entered,
                     ![t].pc = IF o.raise # "" THEN "responded" ELSE "commit",
                     ![t].resp = IF o.raise # "" THEN "error" ELSE "none",
                     ![t].why = o.raise]
    /\ UNCHANGED <<registry, changelog, aliases, dictionary, bibfile>>
    /\ UNCHANGED notServer

\* Line 492 or line 543: the record list in memory changes.
ApplyCommit(t) ==
    /\ th[t].pc = "commit"
    /\ LET o == th[t].out
       IN  th' = [th EXCEPT
                     ![t].reg = Committed(th[t].reg, o),
                     ![t].chg = [op |-> o.mode, rec_id |-> o.rec.id,
                                 reason |-> o.reason, actor |-> o.editor_name],
                     ![t].pc = IF o.mode = "edit" /\ o.changed_key /\ o.breaking
                               THEN "alias_source" ELSE "change"]
    /\ UNCHANGED <<registry, changelog, aliases, dictionary, bibfile>>
    /\ UNCHANGED notServer

\* append_alias, lines 46-52: return at once or load aliases.yaml.
AliasRead(t, pc, old, new, wpc, skippc) ==
    /\ th[t].pc = pc
    /\ IF AliasSkipped(old, new) THEN Goto(t, skippc)
       ELSE th' = [th EXCEPT ![t].data = aliases, ![t].pc = wpc]
    /\ UNCHANGED <<registry, changelog, aliases, dictionary, bibfile>>
    /\ UNCHANGED notServer

\* append_alias, lines 53-59: append to the list read and write the file.
AliasWrite(t, pc, alias_type, old, new, nextpc) ==
    /\ th[t].pc = pc
    /\ aliases' = Append(th[t].data,
                         AliasEntry(alias_type, old, new, th[t].out.reason, th[t].now))
    /\ th' = [th EXCEPT ![t].data = <<>>, ![t].pc = nextpc]
    /\ UNCHANGED <<registry, changelog, dictionary, bibfile>>
    /\ UNCHANGED notServer

\* Line 495.
AliasSourceRead(t) ==
    AliasRead(t, "alias_source", th[t].out.before_source, th[t].out.rec.source,
              "alias_source_w", "alias_citekey")

AliasSourceWrite(t) ==
    AliasWrite(t, "alias_source_w", "source", th[t].out.before_source,
               th[t].out.rec.source, "alias_citekey")

\* Line 496.
AliasCitekeyRead(t) ==
    AliasRead(t, "alias_citekey", th[t].out.before_citekey, th[t].out.rec.citekey,
              "alias_citekey_w", "change")

AliasCitekeyWrite(t) ==
    AliasWrite(t, "alias_citekey_w", "citekey", th[t].out.before_citekey,
               th[t].out.rec.citekey, "change")

\* append_change, lines 32-33: load change_log.yaml.
ChangeRead(t) ==
    /\ th[t].pc = "change"
    /\ th' = [th EXCEPT ![t].data = changelog, ![t].pc = "change_w"]
    /\ UNCHANGED <<registry, changelog, aliases, dictionary, bibfile>>
    /\ UNCHANGED notServer

\* append_change, lines 34-43: append the entry and write the file; then
\* apply_payload returns (line 498 / 544) or the delete handler goes on.
ChangeWrite(t) ==
    /\ th[t].pc = "change_w"
    /\ changelog' = Append(th[t].data,
                           ChangeEntry(th[t].chg.op, th[t].chg.rec_id, th[t].chg.reason,
                                       th[t].chg.actor, th[t].now))
    /\ th' = [th EXCEPT ![t].data = <<>>, ![t].pc = "save"]
    /\ UNCHANGED <<registry, aliases, dictionary, bibfile>>
    /\ UNCHANGED notServer

\* App.save, lines 1223 and 1274: the registry in memory replaces the file.
Save(t) ==
    /\ th[t].pc = "save"
    /\ registry' = th[t].reg
    /\ IF th[t].via = "call" THEN Reply(t, "ok", "") ELSE Goto(t, "build_load")
    /\ UNCHANGED <<changelog, aliases, dictionary, bibfile>>
    /\ UNCHANGED notServer

\* build_sources_artifacts.main: load the registry and sort its records.
BuildLoad(t) ==
    /\ th[t].pc = "build_load"
    /\ th' = [th EXCEPT ![t].build = records_sorted(registry), ![t].pc = "build_sheet"]
    /\ UNCHANGED <<registry, changelog, aliases, dictionary, bibfile>>
    /\ UNCHANGED notServer

\* build_sources_artifacts.main: write_sources_sheet, whose template is the
\* dictionary itself; a missing template is an error.
BuildSheet(t) ==
    /\ th[t].pc = "build_sheet"
    /\ IF dictionary.exists
       THEN /\ dictionary' = Present(SheetRows(th[t].build))
            /\ Goto(t, "build_bib")
       ELSE /\ Reply(t, "error", "build")
            /\ UNCHANGED dictionary
    /\ UNCHANGED <<registry, changelog, aliases, bibfile>>
    /\ UNCHANGED notServer

\* build_sources_artifacts.main: write_bib, and the handler's response.
BuildBib(t) ==
    /\ th[t].pc = "build_bib"
    /\ bibfile' = Present(BibEntries(th[t].build))
    /\ Reply(t, "ok", "")
    /\ UNCHANGED <<registry, changelog, aliases, dictionary>>
    /\ UNCHANGED notServer

\* POST /api/delete_entry, lines 1252-1265.
DeleteEntryRequest(t, p) ==
    /\ th[t].pc = "idle"
    /\ Len(changelog) < MaxServed
    /\ LET started == [IdleThread EXCEPT !.via = "http", !.op = "delete", !.payload = p]
       IN  IF normalize_whitespace(p.target) = <<>>
           THEN th' = [th EXCEPT ![t] = [started EXCEPT
                          !.pc = "responded", !.resp = "error", !.why = "target"]]
           ELSE IF normalize_whitespace(p.editor_name) = <<>>
           THEN th' = [th EXCEPT ![t] = [started EXCEPT
                          !.pc = "responded", !.resp = "error", !.why = "editor_name"]]
           ELSE th' = [th EXCEPT ![t] = [started EXCEPT
                          !.pc = "delete", !.reg = registry, !.loaded = registry]]
    /\ UNCHANGED <<registry, changelog, aliases, dictionary, bibfile>>

PostDeleteEntry(t, p) ==
    /\ DeleteEntryRequest(t, p)
    /\ UNCHANGED notServer

\* Lines 1266-1272: resolve the target and remove it from the list in memory.
DeleteRemove(t) ==
    /\ th[t].pc = "delete"
    /\ LET hits == find_target(th[t].reg, th[t].payload.target)
           idx == CHOOSE i \in hits : TRUE
           reason == normalize_whitespace(th[t].payload.change_reason)
       IN  IF Cardinality(hits) # 1 THEN Reply(t, "error", "target")
           ELSE th' = [th EXCEPT
                          ![t].reg = RemoveAt(th[t].reg, idx),
                          ![t].now = Now,
                          ![t].chg = [op |-> "delete", rec_id |-> th[t].reg[idx].id,
                                      reason |-> IF reason # <<>> THEN reason
                                                 ELSE DeletedViaLocalUI,
                                      actor |-> normalize_whitespace(th[t].payload.editor_name)],
                          ![t].pc = "change"]
    /\ UNCHANGED <<registry, changelog, aliases, dictionary, bibfile>>
    /\ UNCHANGED notServer

\* The response is sent and the handler thread ends.
Respond(t) ==
    /\ th[t].pc = "responded"
    /\ th' = [th EXCEPT ![t] = IdleThread]
    /\ UNCHANGED <<registry, changelog, aliases, dictionary, bibfile>>
    /\ UNCHANGED notServer

(***************************************************************************)
(* Direct calls of apply_payload, one at a time, each followed by the save *)
(* of the registry.                                                        *)
(***************************************************************************)

Article == <<"a","r","t","i","c","l","e">>

\* A record added before the local UI existed: an id no slug yields, review
\* comments, an entry type of its own and extra bib fields.
LegacyRecord ==
    [BlankRecord EXCEPT
        !.id = <<"o","l","d">>,
        !.source = <<"L">>, !.citekey = <<"L">>,
        !.section = <<"s">>, !.aggsource = <<"g">>, !.legend = <<"l">>,
        !.link = HttpH \o <<"l">>,
        !.qcommentsforta = <<"q","?">>, !.tareply = <<"o","k">>,
        !.created_by = <<"z">>,
        !.bib = [BlankBib EXCEPT
                    !.entry_type = Article,
                    !.title = <<"T","l">>, !.author = <<"x">>,
                    !.year = <<"1","9","9","9">>,
                    !.extra_fields = {<<<<"h","o","w","p","u","b","l","i","s","h","e","d">>, <<"n">>>>}]]

\* A record imported from the spreadsheet with a citekey of its own.
ImportedRecord ==
    [LegacyRecord EXCEPT
        !.id = <<"i","m","p">>,
        !.source = <<"M">>, !.citekey = <<"M","c">>,
        !.link = HttpH \o <<"m">>,
        !.bib.title = <<"T","m">>]

\* A record bootstrap_registry made of a sheet row without a Source.
KeylessRecord ==
    [LegacyRecord EXCEPT
        !.id = <<"s","r","c","-","n">>,
        !.source = <<>>, !.citekey = <<"N">>,
        !.link = HttpH \o <<"n">>,
        !.bib.title = <<"T","n">>]

\* The form of a complete entry for key K<i>.
FullForm(i) ==
    [BlankForm EXCEPT
        !.source_key = <<"K", DigitChar(i)>>,
        !.section = <<"s">>, !.aggsource = <<"g">>, !.legend = <<"l">>,
        !.link = HttpH \o <<"p", DigitChar(i)>>,
        !.bib = [BlankBib EXCEPT
                    !.entry_type = Article,
                    !.title = <<"T", DigitChar(i)>>, !.author = <<"x">>,
                    !.year = <<"2","0","2","0">>]]

AddPayload(form, editor) ==
    [BlankPayload EXCEPT !.mode = "add", !.editor_name = editor, !.record = form]

EditPayload(target, form, reason, confirmed) ==
    [BlankPayload EXCEPT
        !.mode = "edit", !.target = target, !.change_reason = reason,
        !.key_rename_confirmed = confirmed, !.editor_name = <<"e">>, !.record = form]

DeletePayload(target, editor) ==
    [BlankPayload EXCEPT !.mode = "delete", !.target = target, !.editor_name = editor]

\* The payloads apply_payload is called with.
ApplyPayloads ==
    {AddPayload(FullForm(1), <<"e">>),
     AddPayload(FullForm(2), <<"e">>),
     \* no title
     AddPayload([FullForm(1) EXCEPT !.bib.title = <<>>], <<"e">>),
     \* no editor name
     AddPayload(FullForm(2), <<" ">>),
     \* the link of K1 under another key, in another spelling
     AddPayload([FullForm(3) EXCEPT !.link = <<"H","T","T","P",":","/","/","H","/","p","1","/">>],
                <<"e">>),
     \* an unknown mode
     [AddPayload(FullForm(1), <<"e">>) EXCEPT !.mode = "bogus"],
     \* an edit that fills in nothing
     EditPayload(<<"K","1">>, BlankForm, <<"r">>, FALSE),
     EditPayload(<<"L">>, BlankForm, <<"r">>, FALSE),
     \* an edit of one field
     EditPayload(<<"K","1">>, [BlankForm EXCEPT !.section = <<"s","2">>], <<"r">>, FALSE),
     \* renames, confirmed or not, to a free key and to a taken one
     EditPayload(<<"K","1">>, [BlankForm EXCEPT !.source_key = <<"K","9">>], <<"r">>, TRUE),
     EditPayload(<<"L">>, [BlankForm EXCEPT !.source_key = <<"K","9">>], <<"r">>, TRUE),
     EditPayload(<<"K","1">>, [BlankForm EXCEPT !.source_key = <<"K","9">>], <<"r">>, FALSE),
     EditPayload(<<"K","1">>, [BlankForm EXCEPT !.source_key = <<"K","2">>], <<"r">>, TRUE),
     \* no reason, no such target
     EditPayload(<<"K","1">>, [BlankForm EXCEPT !.section = <<"s","2">>], <<" ">>, FALSE),
     EditPayload(<<"z","z">>, BlankForm, <<"r">>, FALSE),
     \* a year that is no year, by id
     EditPayload(<<"o","l","d">>, [BlankForm EXCEPT !.bib.year = <<"2","0">>], <<"r">>, FALSE),
     \* the link of K2, by id
     EditPayload(<<"s","r","c","-","k","1">>,
                 [BlankForm EXCEPT !.link = HttpH \o <<"p","2">>], <<"r">>, FALSE),
     \* an edit of one field of the imported record, and a confirmed edit
     \* that gives it its source as the key
     EditPayload(<<"i","m","p">>, [BlankForm EXCEPT !.section = <<"s","2">>], <<"r">>, FALSE),
     EditPayload(<<"i","m","p">>, [BlankForm EXCEPT !.source_key = <<"M">>], <<"r">>, TRUE),
     \* a confirmed edit that gives the record without a source its
     \* citekey as the key
     EditPayload(<<"N">>, [BlankForm EXCEPT !.source_key = <<"N">>], <<"r">>, TRUE)}

\* The registries a run starts from.
InitialRegistries == {<<>>, <<LegacyRecord>>, <<ImportedRecord>>, <<KeylessRecord>>}

ApplyInit ==
    /\ registry \in InitialRegistries
    /\ changelog = <<>>
    /\ aliases = <<>>
    /\ dictionary = Absent
    /\ bibfile = Absent
    /\ th = [t \in Threads |-> IdleThread]

ApplyNext ==
    \/ \E p \in ApplyPayloads : CallApplyPayload(1, p)
    \/ ApplyCheck(1)
    \/ ApplyCommit(1)
    \/ AliasSourceRead(1)
    \/ AliasSourceWrite(1)
    \/ AliasCitekeyRead(1)
    \/ AliasCitekeyWrite(1)
    \/ ChangeRead(1)
    \/ ChangeWrite(1)
    \/ Save(1)
    \/ Respond(1)

(***************************************************************************)
(* The server: every request in a thread of its own.                       *)
(***************************************************************************)

\* The record the local UI stores for the complete entry K<i>.
AddedRecord(i) ==
    NewRecord(make_candidate(AddPayload(FullForm(i), <<"e">>)), <<"e">>, 0)

\* The requests sent to /api/apply_and_build and to /api/delete_entry.
ApplyRequests ==
    {AddPayload(FullForm(2), <<"e">>),
     EditPayload(<<"K","1">>, [BlankForm EXCEPT !.source_key = <<"K","9">>], <<"r">>, TRUE)}

DeleteRequests ==
    {DeletePayload(<<"K","1">>, <<"e">>),
     DeletePayload(<<"K","1">>, <<>>)}

\* The server starts on a registry of one record, with the
\* artifacts generated from it or not generated yet.
ServerInit ==
    /\ registry = <<AddedRecord(1)>>
    /\ changelog = <<>>
    /\ aliases = <<>>
    /\ \/ dictionary = Absent /\ bibfile = Absent
       \/ /\ dictionary = Present(SheetRows(records_sorted(registry)))
          /\ bibfile = Present(BibEntries(records_sorted(registry)))
    /\ th = [t \in Threads |-> IdleThread]

Handle(t) ==
    \/ \E p \in ApplyRequests : PostApplyAndBuild(t, p)
    \/ \E p \in DeleteRequests : PostDeleteEntry(t, p)
    \/ PreCheck(t)
    \/ ApplyCheck(t)
    \/ ApplyCommit(t)
    \/ AliasSourceRead(t)
    \/ AliasSourceWrite(t)
    \/ AliasCitekeyRead(t)
    \/ AliasCitekeyWrite(t)
    \/ ChangeRead(t)
    \/ ChangeWrite(t)
    \/ DeleteRemove(t)
    \/ Save(t)
    \/ BuildLoad(t)
    \/ BuildSheet(t)
    \/ BuildBib(t)
    \/ Respond(t)

ServerNext == \E t \in Threads : Handle(t)

\* The same server, had it served one request at a time: a request starts
\* only when no other one is being served.
SerialNext ==
    \E t \in Threads :
        /\ \A u \in Threads \ {t} : th[u].pc = "idle"
        /\ Handle(t)

(***************************************************************************)
(* The editor: apply_payload and delete_entry, one operation at a time,    *)
(* from an empty registry whose artifacts have been generated.             *)
(***************************************************************************)

\* The form of a complete entry for a source, with a link and a title of
\* its own.
SourceForm(source, i) == [FullForm(i) EXCEPT !.source_key = source]

\* The operations of the editor: adds of sources of which two have the same
\* slug, an add of a source already there, renames to a free key and to a
\* taken one, by source and by id.
EditorPayloads ==
    {AddPayload(SourceForm(<<"A"," ","B">>, 1), <<"e">>),
     AddPayload(SourceForm(<<"A","-","B">>, 2), <<"e">>),
     AddPayload(SourceForm(<<"A"," ","B">>, 3), <<"e">>),
     AddPayload(FullForm(4), <<"e">>),
     EditPayload(<<"A"," ","B">>, [BlankForm EXCEPT !.source_key = <<"A","-","B">>], <<"r">>, TRUE),
     EditPayload(<<"K","4">>, [BlankForm EXCEPT !.source_key = <<"A","-","B">>], <<"r">>, TRUE),
     EditPayload(<<"K","4">>, [BlankForm EXCEPT !.source_key = <<"K","5">>], <<"r">>, TRUE),
     EditPayload(<<"s","r","c","-","a","-","b">>,
                 [BlankForm EXCEPT !.section = <<"s","2">>], <<"r">>, FALSE)}

EditorDeletes ==
    {DeletePayload(<<"A"," ","B">>, <<"e">>),
     DeletePayload(<<"K","4">>, <<"e">>),
     DeletePayload(<<"s","r","c","-","a","-","b">>, <<"e">>)}

EditorInit ==
    /\ registry = <<>>
    /\ changelog = <<>>
    /\ aliases = <<>>
    /\ dictionary = Present(SheetRows(<<>>))
    /\ bibfile = Present(BibEntries(<<>>))
    /\ th = [t \in Threads |-> IdleThread]

EditorNext ==
    \/ \E p \in EditorPayloads : CallApplyPayload(1, p)
    \/ \E p \in EditorDeletes : PostDeleteEntry(1, p)
    \/ ApplyCheck(1)
    \/ ApplyCommit(1)
    \/ AliasSourceRead(1)
    \/ AliasSourceWrite(1)
    \/ AliasCitekeyRead(1)
    \/ AliasCitekeyWrite(1)
    \/ ChangeRead(1)
    \/ ChangeWrite(1)
    \/ DeleteRemove(1)
    \/ Save(1)
    \/ BuildLoad(1)
    \/ BuildSheet(1)
    \/ BuildBib(1)
    \/ Respond(1)

(***************************************************************************)
(* The hosting process: main of ui_local with its ThreadingHTTPServer, the *)
(* idle_guard thread and the /api/shutdown request.                        *)
(***************************************************************************)

\* app.idle_timeout_seconds (line 1076), in ticks of the clock.
IdleTimeout == 2

\* Before main has started the server the host is a server that nobody has
\* asked to stop.
HostIdle ==
    /\ httpd = "serving"
    /\ quiet = 0

\* The server main starts: serve_forever is running, last_ping is the time
\* of construction (line 1075).
HostInit ==
    /\ ServerInit
    /\ httpd = "serving"
    /\ quiet = 0

\* A second of the clock goes by without a request.
HostTick ==
    /\ httpd # "exited"
    /\ quiet <= IdleTimeout
    /\ quiet' = quiet + 1
    /\ UNCHANGED <<httpd, serverVars>>
    /\ UNCHANGED notHost

\* do_GET and do_POST start by setting last_ping (lines 1131, 1161); the
\* page pings every two seconds.
HostPing ==
    /\ httpd = "serving"
    /\ quiet > 0
    /\ quiet' = 0
    /\ UNCHANGED <<httpd, serverVars>>
    /\ UNCHANGED notHost

\* serve_forever takes a request while nobody has asked it to stop, and
\* hands it to a handler thread of its own.
HostRequest(t) ==
    /\ httpd = "serving"
    /\ \/ \E p \in ApplyRequests : ApplyAndBuildRequest(t, p)
       \/ \E p \in DeleteRequests : DeleteEntryRequest(t, p)
    /\ quiet' = 0
    /\ UNCHANGED httpd
    /\ UNCHANGED notHost

\* POST /api/shutdown, lines 1305-1308: the answer is sent and a thread calls
\* server.shutdown, which asks serve_forever to stop.
PostShutdown ==
    /\ httpd = "serving"
    /\ httpd' = "stopping"
    /\ quiet' = 0
    /\ UNCHANGED serverVars
    /\ UNCHANGED notHost

\* idle_guard, lines 1329-1337: once the last ping is older than the
\* timeout the thread calls httpd.shutdown and returns.
IdleGuard ==
    /\ httpd = "serving"
    /\ quiet > IdleTimeout
    /\ httpd' = "stopping"
    /\ UNCHANGED <<quiet, serverVars>>
    /\ UNCHANGED notHost

\* Lines 1343-1347: serve_forever returns, main returns 0 and the process
\* exits; the handler threads are daemon threads and end where they are.
HostExit ==
    /\ httpd = "stopping"
    /\ httpd' = "exited"
    /\ UNCHANGED <<quiet, serverVars>>
    /\ UNCHANGED notHost

\* A handler thread takes its next step as long as the process lives.
HostStep(t) ==
    /\ httpd # "exited"
    /\ \/ PreCheck(t)
       \/ ApplyCheck(t)
       \/ ApplyCommit(t)
       \/ AliasSourceRead(t)
       \/ AliasSourceWrite(t)
       \/ AliasCitekeyRead(t)
       \/ AliasCitekeyWrite(t)
       \/ ChangeRead(t)
       \/ ChangeWrite(t)
       \/ DeleteRemove(t)
       \/ Save(t)
       \/ BuildLoad(t)
       \/ BuildSheet(t)
       \/ BuildBib(t)
       \/ Respond(t)

\* The process serving one operation at a time, which is what the browser
\* page does.
HostNext ==
    \/ HostTick
    \/ HostPing
    \/ PostShutdown
    \/ IdleGuard
    \/ HostExit
    \/ /\ \A u \in Threads : th[u].pc = "idle"
       /\ HostRequest(1)
    \/ HostStep(1)

(***************************************************************************)
(* write_sources_sheet as a state machine that may crash at any step.      *)
(***************************************************************************)

OutputPath == <<"dictionary", ".xlsx">>

TemplatePath == <<"template", ".xlsx">>

SheetPaths == {OutputPath, TemplatePath, tmp_output(OutputPath)}

Raw(x) == [BlankContent EXCEPT !.raw = <<x>>]

SheetName == <<"xl", "worksheets", "sheet1.xml">>

\* The parts of a template workbook: the content types, the relationships
\* (the target of the Sources sheet relative to xl/ or not), the workbook
\* (with a sheet of the given name and a filter range on the given sheet),
\* the worksheet with the rows of an earlier build, and the styles.
TemplateParts(target, sheet_name, filter_sheet) ==
    <<Entry(RelsName, [BlankContent EXCEPT
                          !.kind = "rels",
                          !.rels = <<[Id |-> "rId2", Target |-> <<"styles.xml">>],
                                     [Id |-> "rId1", Target |-> target]>>]),
      Entry(WorkbookName, [BlankContent EXCEPT
                          !.kind = "workbook",
                          !.sheets = <<[name |-> sheet_name, rid |-> "rId1"]>>,
                          !.defined = <<[name |-> "_xlnm._FilterDatabase",
                                         sheet |-> filter_sheet, last |-> 9]>>]),
      Entry(SheetName, build_sources_sheet_xml(
                          <<record_to_sources_sheet_row(GoodRecord(0))>>)),
      Entry(<<"xl", "styles.xml">>, Raw("styles"))>>

TemplateVariants ==
    {TemplateParts(<<"worksheets", "sheet1.xml">>, "Sources", "Sources"),
     TemplateParts(SheetName, "Sources", "Sources"),
     TemplateParts(<<"worksheets", "sheet1.xml">>, "Sources", "Lists"),
     TemplateParts(<<"worksheets", "sheet1.xml">>, "Data", "Sources")}

\* The template packages: the content types first, the other parts in any
\* order; part names are unique, as in every OPC package.
Templates ==
    {Package(<<Entry(<<"[Content_Types].xml">>, Raw("types"))>>
             \o [i \in 1..4 |-> parts[f[i]]]) :
        parts \in TemplateVariants, f \in Perms(4)}

\* The row lists written.
RowLists ==
    {<<>>,
     <<record_to_sources_sheet_row(GoodRecord(1))>>,
     <<record_to_sources_sheet_row([GoodRecord(1) EXCEPT !.legend = <<"a","&","b","<","c">>]),
       record_to_sources_sheet_row(GoodRecord(2))>>}

\* The template is the output itself (the default configuration) or a file
\* of its own; the output exists or not.
SheetInit ==
    /\ s_rows \in RowLists
    /\ s_template \in {OutputPath, TemplatePath}
    /\ \E t \in Templates, old \in {NoFile, CHOOSE o \in Templates : TRUE} :
          fs = [p \in SheetPaths |->
                   IF s_template = OutputPath
                   THEN (IF p = OutputPath /\ old # NoFile THEN t ELSE NoFile)
                   ELSE (IF p = TemplatePath THEN t
                         ELSE IF p = OutputPath THEN old ELSE NoFile)]
    /\ s_names = <<>>
    /\ s_sheet_path = <<>>
    /\ s_workbook_xml = BlankContent
    /\ s_i = 0
    /\ s_pc = "start"
    /\ s_old = fs[OutputPath]

SheetIdle ==
    /\ fs = [p \in SheetPaths |-> NoFile]
    /\ s_template = OutputPath
    /\ s_rows = <<>>
    /\ s_names = <<>>
    /\ s_sheet_path = <<>>
    /\ s_workbook_xml = BlankContent
    /\ s_i = 0
    /\ s_pc = "off"
    /\ s_old = NoFile

\* Lines 415-420: open the template, locate the sheet, compute the workbook
\* part; a missing or broken template and a failed lookup raise.
SheetOpen ==
    /\ s_pc = "start"
    /\ LET zin == fs[s_template]
           loc == locate_sources_sheet(zin)
       IN  IF zin.exists /\ zin.closed /\ loc.ok
           THEN /\ s_names' = namelist(zin)
                /\ s_sheet_path' = loc.path
                /\ s_workbook_xml' =
                      update_filter_database_range(ReadEntry(zin, WorkbookName),
                                                   Len(s_rows) + 1)
                /\ s_pc' = "create"
           ELSE /\ s_pc' = "error"
                /\ UNCHANGED <<s_names, s_sheet_path, s_workbook_xml>>
    /\ UNCHANGED <<fs, s_template, s_rows, s_i, s_old>>
    /\ UNCHANGED notSheet

\* Line 422: the temporary file is created empty.
SheetCreateTmp ==
    /\ s_pc = "create"
    /\ fs' = [fs EXCEPT ![tmp_output(OutputPath)] =
                 [exists |-> TRUE, entries |-> <<>>, closed |-> FALSE]]
    /\ s_i' = 1
    /\ s_pc' = "loop"
    /\ UNCHANGED <<s_template, s_rows, s_names, s_sheet_path, s_workbook_xml, s_old>>
    /\ UNCHANGED notSheet

\* Lines 423-429, one iteration.
SheetWriteEntry ==
    /\ s_pc = "loop"
    /\ s_i <= Len(s_names)
    /\ fs' = [fs EXCEPT ![tmp_output(OutputPath)].entries =
                 Append(@, Entry(s_names[s_i],
                                 writestr(fs[s_template], s_names[s_i], s_sheet_path,
                                          build_sources_sheet_xml(s_rows), s_workbook_xml)))]
    /\ s_i' = s_i + 1
    /\ UNCHANGED <<s_template, s_rows, s_names, s_sheet_path, s_workbook_xml, s_pc, s_old>>
    /\ UNCHANGED notSheet

\* The end of the with blocks: the temporary package is completed.
SheetCloseTmp ==
    /\ s_pc = "loop"
    /\ s_i > Len(s_names)
    /\ fs' = [fs EXCEPT ![tmp_output(OutputPath)].closed = TRUE]
    /\ s_pc' = "replace"
    /\ UNCHANGED <<s_template, s_rows, s_names, s_sheet_path, s_workbook_xml, s_i, s_old>>
    /\ UNCHANGED notSheet

\* Line 430: tmp_output.replace(output_xlsx).
SheetReplace ==
    /\ s_pc = "replace"
    /\ fs' = [p \in SheetPaths |->
                 IF p = OutputPath THEN fs[tmp_output(OutputPath)]
                 ELSE IF p = tmp_output(OutputPath) THEN NoFile
                 ELSE fs[p]]
    /\ s_pc' = "done"
    /\ UNCHANGED <<s_template, s_rows, s_names, s_sheet_path, s_workbook_xml, s_i, s_old>>
    /\ UNCHANGED notSheet

\* The process dies, or a write fails, between two steps.
SheetCrash ==
    /\ s_pc \in {"start", "create", "loop", "replace"}
    /\ s_pc' = "crashed"
    /\ UNCHANGED <<fs, s_template, s_rows, s_names, s_sheet_path, s_workbook_xml, s_i, s_old>>
    /\ UNCHANGED notSheet

SheetNext ==
    \/ SheetOpen
    \/ SheetCreateTmp
    \/ SheetWriteEntry
    \/ SheetCloseTmp
    \/ SheetReplace
    \/ SheetCrash

(***************************************************************************)
(* write_bib as a state machine that may crash at any step.                *)
(***************************************************************************)

BibInit ==
    /\ b_records \in {records_sorted(r) : r \in Registries}
    /\ b_file \in {NoBib, BibFile(BibText(<<GoodRecord(0)>>))}
    /\ b_text = <<>>
    /\ b_n = 0
    /\ b_pc = "start"
    /\ b_old = b_file

BibIdle ==
    /\ b_records = <<>>
    /\ b_file = NoBib
    /\ b_text = <<>>
    /\ b_n = 0
    /\ b_pc = "off"
    /\ b_old = NoBib

\* Lines 18-24: the entries are rendered and joined.
BibRender ==
    /\ b_pc = "start"
    /\ b_text' = BibText(b_records)
    /\ b_pc' = "open"
    /\ UNCHANGED <<b_records, b_file, b_n, b_old>>
    /\ UNCHANGED notBib

\* Line 25, Path.write_text: the file is opened for writing at its own path,
\* which truncates it.
BibOpen ==
    /\ b_pc = "open"
    /\ b_file' = BibFile(<<>>)
    /\ b_n' = 0
    /\ b_pc' = "write"
    /\ UNCHANGED <<b_records, b_text, b_old>>
    /\ UNCHANGED notBib

\* Line 25: the next piece of the text reaches the file.
BibWritePiece ==
    /\ b_pc = "write"
    /\ b_n < Len(b_text)
    /\ b_n' = PieceEnd(b_text, b_n)
    /\ b_file' = BibFile(SubSeq(b_text, 1, b_n'))
    /\ UNCHANGED <<b_records, b_text, b_pc, b_old>>
    /\ UNCHANGED notBib

\* Line 25: the file is closed.
BibClose ==
    /\ b_pc = "write"
    /\ b_n = Len(b_text)
    /\ b_pc' = "done"
    /\ UNCHANGED <<b_records, b_file, b_text, b_n, b_old>>
    /\ UNCHANGED notBib

\* The process dies between two steps.
BibCrash ==
    /\ b_pc \in {"start", "open", "write"}
    /\ b_pc' = "crashed"
    /\ UNCHANGED <<b_records, b_file, b_text, b_n, b_old>>
    /\ UNCHANGED notBib

BibNext == BibRender \/ BibOpen \/ BibWritePiece \/ BibClose \/ BibCrash

(***************************************************************************)
(* read_sources_sheet on a package write_sources_sheet has just written,   *)
(* and on workbooks made elsewhere.                                        *)
(***************************************************************************)

\* Largest number of rows written.
MaxRows == 3

\* The rows written: two with values (special characters, surrounding and
\* inner whitespace, a carriage return), one with nothing, one with
\* whitespace only, one with a form feed in a comment.
SheetRowChoices ==
    {record_to_sources_sheet_row(GoodRecord(1)),
     record_to_sources_sheet_row(
        [GoodRecord(2) EXCEPT !.legend = <<"a","&","b","<","c",">">>,
                              !.metadata = <<" ","x"," "," ","y"," ">>,
                              !.tareply = <<"p","\r","q">>]),
     record_to_sources_sheet_row(BlankRecord),
     record_to_sources_sheet_row([BlankRecord EXCEPT !.section = <<" ","\t">>]),
     record_to_sources_sheet_row([GoodRecord(3) EXCEPT !.qcommentsforta = <<"a","\f","b">>])}

RowListsWritten ==
    UNION {[1..n -> SheetRowChoices] : n \in 0..MaxRows}

\* The template written into: its Sources sheet filled by an earlier build.
WrittenTemplate ==
    Package(<<Entry(<<"[Content_Types].xml">>, Raw("types"))>>
            \o TemplateParts(<<"worksheets", "sheet1.xml">>, "Sources", "Sources"))

\* A cell of a workbook made elsewhere.
Cell(ref, t, text) == [ref |-> ref, t |-> t, text |-> text]

\* Row 1 of such a workbook: every header cell with the default name, a
\* name of its own in column A, column B's cell there but empty, column B's
\* cell not there, a row 1 without cells, or no row 1 at all.
HeaderKinds == {"default", "custom", "blank_cell", "missing_cell", "no_cells", "no_row"}

HeaderCells(kind) ==
    LET all == [c \in 1..Len(SOURCES_HEADERS) |->
                  Cell(column_name(c) \o <<"1">>, "inlineStr",
                       IF kind = "custom" /\ c = 1 THEN <<"S","e","c">>
                       ELSE IF kind = "blank_cell" /\ c = 2 THEN <<>>
                       ELSE HeaderText[c])]
    IN  IF kind = "no_cells" THEN <<>>
        ELSE IF kind = "missing_cell" THEN SelectSeq(all, LAMBDA c : c.ref # <<"B","1">>)
        ELSE all

\* The data rows of such a workbook: sparse rows of inline strings, shared
\* strings and plain values, and a row with no value.
DataRowChoices ==
    {<<>>,
     <<[r |-> 2, cells |-> <<Cell(<<"A","2">>, "inlineStr", <<"s","1">>),
                             Cell(<<"B","2">>, "s", <<"0">>),
                             Cell(<<"D","2">>, "n", <<"4","2">>)>>]>>,
     <<[r |-> 2, cells |-> <<Cell(<<"B","2">>, "s", <<"1">>),
                             Cell(<<"S","2">>, "inlineStr", <<"o","u","t">>)>>],
       [r |-> 3, cells |-> <<Cell(<<"A","3">>, "inlineStr", <<" ">>)>>],
       [r |-> 4, cells |-> <<Cell(<<"D","4">>, "inlineStr", <<"K","1">>),
                             Cell(<<"H","4">>, "inlineStr", <<"K","1">>)>>]>>}

GivenSheet(kind, rows) ==
    [BlankContent EXCEPT
        !.kind = "worksheet",
        !.dimension = Len(rows) + 1,
        !.data = (IF kind = "no_row" THEN <<>>
                  ELSE <<[r |-> 1, cells |-> HeaderCells(kind)]>>) \o rows]

\* The workbooks made elsewhere, with and without a shared strings part.
GivenPackages ==
    {Package(<<Entry(<<"[Content_Types].xml">>, Raw("types")),
               TemplateParts(<<"worksheets", "sheet1.xml">>, "Sources", "Sources")[1],
               TemplateParts(<<"worksheets", "sheet1.xml">>, "Sources", "Sources")[2],
               Entry(SheetName, GivenSheet(kind, rows))>>
             \o sst) :
        kind \in HeaderKinds, rows \in DataRowChoices,
        sst \in {<<>>, <<Entry(SharedStringsName,
                               [BlankContent EXCEPT !.kind = "sst",
                                                    !.data = <<<<"g","1">>, <<"l","&","a","m","p",";">>>>])>>}}

ReadInit ==
    /\ \/ /\ rd_from = "write"
          /\ rd_rows \in RowListsWritten
          /\ rd_file = WrittenTemplate
          /\ rd_pc = "write"
       \/ /\ rd_from = "given"
          /\ rd_rows = <<>>
          /\ rd_file \in GivenPackages
          /\ rd_pc = "read"
    /\ rd_out = [ok |-> FALSE, rows |-> <<>>]

ReadIdle ==
    /\ rd_file = NoFile
    /\ rd_rows = <<>>
    /\ rd_from = "given"
    /\ rd_out = [ok |-> FALSE, rows |-> <<>>]
    /\ rd_pc = "off"

\* write_sources_sheet(template, output, rows) with the output as template.
ReadWrite ==
    /\ rd_pc = "write"
    /\ rd_file' = write_sources_sheet(rd_file, rd_rows)
    /\ rd_pc' = "read"
    /\ UNCHANGED <<rd_rows, rd_from, rd_out>>
    /\ UNCHANGED notRead

\* read_sources_sheet(xlsx_path)
ReadSheet ==
    /\ rd_pc = "read"
    /\ rd_out' = read_sources_sheet(rd_file)
    /\ rd_pc' = "done"
    /\ UNCHANGED <<rd_file, rd_rows, rd_from>>
    /\ UNCHANGED notRead

ReadNext == ReadWrite \/ ReadSheet

(***************************************************************************)
(* The bibliography codec: render_bib_entry, parse_bib_entries,            *)
(* parse_bib_paste and map_row on a bounded set of entries and texts.      *)
(***************************************************************************)

\* The entries rendered: entry types in both cases and blank, values with
\* runs of whitespace, a line end, braces, blank values, and extra fields.
BibChoices ==
    {[BlankBib EXCEPT !.entry_type = et, !.title = t, !.year = y, !.note = n,
                      !.extra_fields = x] :
        et \in {Article, <<"B","o","o","k">>, <<>>},
        t \in {<<"a"," ","b">>, <<"a","}","b">>, <<" ","a"," "," ","b">>, <<>>},
        y \in {<<"2","0","2","0">>, <<" ">>},
        n \in {<<>>, <<"x",NL,"y">>},
        x \in {{}, {<<<<"z","z">>, <<"q">>>>, <<<<"a","a">>, <<" ">>>>,
                     <<<<"a","b">>, <<"r"," "," ","s">>>>},
                   {<<<<"t","i","t","l","e">>, <<"x">>>>}}}

\* The texts pasted: quoted and bare values, names in upper case, a name
\* given twice, a nested brace, two entries, no entry, a blank name.
PasteTexts ==
    { <<"@","B","o","o","k","{","k",","," ","T","i","t","l","e"," ","="," ",
        "\"","a"," ","b","\"",","," ","y","e","a","r"," ","="," ","1","9",
        "9","9",","," ","x"," ","="," ","{","1","}",","," ","T","I","T","L",
        "E"," ","="," ","{","z","}","}">>,
      <<"@","m","i","s","c","{","k",",",NL," "," ","a","u","t","h","o","r",
        " ","="," ","{","A","}",",",NL," "," ","F","o","o"," ","="," ","{",
        "b","{","c","}","}",",",NL," "," ","u","r","l"," ","="," ","{","h",
        "t","t","p",":","/","/","h","/","p","}",NL,"}",NL,"@","a","r","t",
        "i","c","l","e","{","j",","," ","t","i","t","l","e"," ","="," ","{",
        "t","}","}">>,
      <<"n","o"," ","e","n","t","r","y"," ","h","e","r","e">>,
      <<"@","m","i","s","c","{","k",","," ","="," ","{","v","}",","," ","n",
        "o","t","e"," ","="," ","{","n","}",","," ","z","z"," ","="," ",
        "\"","q","\\","\"","r","\"","}">> }

\* A row of the Sources sheet as read_sources_sheet returns it.
RowOf(source, citekey, legend, link) ==
    {<<HeaderText[idx],
       IF idx = 4 THEN source ELSE IF idx = 8 THEN citekey
       ELSE IF idx = 3 THEN legend ELSE IF idx = 6 THEN link ELSE <<>>>> :
        idx \in 1..Len(HeaderText)}

\* The rows mapped: the key in Source, the key in Citekey, and a row whose
\* key has no entry.
MapRows ==
    { RowOf(<<"k">>, <<>>, <<"L">>, <<>>),
      RowOf(<<"S"," ","1">>, <<" ","K","1"," ">>, <<>>, <<"h","t","t","p",":","/","/","h">>),
      RowOf(<<"n","o","n","e">>, <<>>, <<" ","L","g"," ">>, <<>>) }

CodecInit ==
    /\ cd_from \in {"bib", "text"}
    /\ cd_key = IF cd_from = "bib" THEN <<"K","1">> ELSE <<>>
    /\ cd_bib \in IF cd_from = "bib" THEN BibChoices ELSE {BlankBib}
    /\ cd_row \in MapRows
    /\ cd_text \in IF cd_from = "bib" THEN {<<>>} ELSE PasteTexts
    /\ cd_entries = <<>>
    /\ cd_paste = [raise |-> "", source_key |-> <<>>, bib |-> BlankBib]
    /\ cd_record = BlankRecord
    /\ cd_pc = IF cd_from = "bib" THEN "render" ELSE "text"

CodecIdle ==
    /\ cd_from = "text"
    /\ cd_key = <<>>
    /\ cd_bib = BlankBib
    /\ cd_row = {}
    /\ cd_text = <<>>
    /\ cd_entries = <<>>
    /\ cd_paste = [raise |-> "", source_key |-> <<>>, bib |-> BlankBib]
    /\ cd_record = BlankRecord
    /\ cd_pc = "off"

\* render_bib_entry(key, record)
CodecRender ==
    /\ cd_pc = "render"
    /\ cd_text' = render_bib_entry(cd_key, [BlankRecord EXCEPT !.bib = cd_bib])
    /\ cd_pc' = "text"
    /\ UNCHANGED <<cd_from, cd_key, cd_bib, cd_row, cd_entries, cd_paste, cd_record>>
    /\ UNCHANGED notCodec

\* parse_bib_entries(text), as bootstrap_registry.main calls it on the .bib file
CodecParse ==
    /\ cd_pc = "text"
    /\ cd_entries' = parse_bib_entries(cd_text)
    /\ cd_pc' = "parsed"
    /\ UNCHANGED <<cd_from, cd_key, cd_bib, cd_row, cd_text, cd_paste, cd_record>>
    /\ UNCHANGED notCodec

\* parse_bib_paste(text), the handler of /api/parse_bib
CodecPaste ==
    /\ cd_pc = "text"
    /\ cd_paste' = parse_bib_paste(cd_text)
    /\ cd_pc' = "pasted"
    /\ UNCHANGED <<cd_from, cd_key, cd_bib, cd_row, cd_text, cd_entries, cd_record>>
    /\ UNCHANGED notCodec

\* map_row(row, bib_map, idx) on the entries parsed
CodecMapRow ==
    /\ cd_pc = "parsed"
    /\ cd_record' = map_row(cd_row, cd_entries, 1)
    /\ cd_pc' = "mapped"
    /\ UNCHANGED <<cd_from, cd_key, cd_bib, cd_row, cd_text, cd_entries, cd_paste>>
    /\ UNCHANGED notCodec

CodecNext == CodecRender \/ CodecParse \/ CodecPaste \/ CodecMapRow

(***************************************************************************)
(* normalize_url on pairs of URLs built from a scheme, a host, the         *)
(* segments of a path and a query.                                         *)
(***************************************************************************)

RECURSIVE PathText(_, _)
\* The path of the segments, each behind sep.
PathText(segs, sep) ==
    IF segs = <<>> THEN <<>> ELSE sep \o Head(segs) \o PathText(Tail(segs), sep)

\* The URL of the parts: scheme "://" host, the path, a trailing slash, "?" query;
\* a URL typed without a scheme starts at the host.
UrlText(parts) ==
    (IF parts.scheme # <<>> THEN parts.scheme \o <<":", "/", "/">> ELSE <<>>)
    \o parts.host \o PathText(parts.segs, parts.sep)
    \o (IF parts.trailing THEN <<"/">> ELSE <<>>)
    \o (IF parts.query # <<>> THEN <<"?">> \o parts.query ELSE <<>>)

\* The URLs normalized: no scheme, schemes http and https in either case, the host in
\* two cases, paths of no, one and two segments with single or double
\* slashes and with or without a trailing slash, with and without a query.
UrlChoices ==
    [scheme : {<<>>, <<"h","t","t","p">>, <<"H","T","T","P">>, <<"h","t","t","p","s">>},
     host : {<<"E","x",".","c">>, <<"e","x",".","c">>},
     segs : {<<>>, <<<<"a">>, <<"b">>>>},
     sep : {<<"/">>, <<"/", "/">>},
     trailing : BOOLEAN,
     query : {<<>>, <<"q","=","1">>}]

UrlInit ==
    /\ u_parts \in [{1, 2} -> UrlChoices]
    /\ u_parts[1].query = u_parts[2].query
    /\ u_text = [i \in {1, 2} |-> UrlText(u_parts[i])]
    /\ u_norm = [i \in {1, 2} |-> [done |-> FALSE, value |-> <<>>]]
    /\ u_again = [i \in {1, 2} |-> [done |-> FALSE, value |-> <<>>]]

UrlIdle ==
    /\ u_parts = <<>>
    /\ u_text = <<>>
    /\ u_norm = <<>>
    /\ u_again = <<>>

\* normalize_url(value) on one of the two URLs
UrlNormalize(i) ==
    /\ ~u_norm[i].done
    /\ u_norm' = [u_norm EXCEPT ![i] = [done |-> TRUE, value |-> normalize_url(u_text[i])]]
    /\ UNCHANGED <<u_parts, u_text, u_again>>
    /\ UNCHANGED notUrl

\* normalize_url(value) on the normal form of one of the two URLs
UrlNormalizeAgain(i) ==
    /\ u_norm[i].done
    /\ ~u_again[i].done
    /\ u_again' = [u_again EXCEPT ![i] = [done |-> TRUE, value |-> normalize_url(u_norm[i].value)]]
    /\ UNCHANGED <<u_parts, u_text, u_norm>>
    /\ UNCHANGED notUrl

UrlNext == \E i \in {1, 2} : UrlNormalize(i) \/ UrlNormalizeAgain(i)

(***************************************************************************)
(* validate_sources.main without --check-generated, on bounded registries, *)
(* schemas, aliases files and change logs.                                 *)
(***************************************************************************)

\* The registries validated: at most MaxRecords records, each well-formed
\* or lacking fields, in any order.
RunRegistries ==
    UNION {{[i \in 1..n |-> Vary(GoodRecord(f[i]), vs[f[i]])] :
               vs \in [1..n -> {"good", "no_year", "blank", "no_id", "bad_link_doi"}],
               f \in Perms(n)} : n \in 0..MaxRecords}

\* The schemas: no schema file, one that requires top-level keys only, and
\* one that also requires fields of every record.
Schemas ==
    { [required |-> <<>>, record_required |-> <<>>],
      [required |-> <<"version", "config", "records">>, record_required |-> <<>>],
      [required |-> <<"version", "config", "records">>,
       record_required |-> <<"id", "source", "citekey", "link", "bib">>] }

\* The aliases files: none, one without the aliases key, one complete entry,
\* one entry that lacks two fields.
AliasFiles ==
    { NoData,
      [exists |-> TRUE, keyed |-> FALSE, entries |-> <<>>],
      [exists |-> TRUE, keyed |-> TRUE,
       entries |-> <<AliasEntry("source", <<"a">>, <<"b">>, <<"r">>, 1)>>],
      [exists |-> TRUE, keyed |-> TRUE,
       entries |-> <<AliasEntry("source", <<"a">>, <<>>, <<" ">>, 1)>>] }

\* The change logs: none, one complete entry, one entry without a reason.
ChangeLogs ==
    { NoData,
      [exists |-> TRUE, keyed |-> TRUE,
       entries |-> <<ChangeEntry("add", <<"r","1">>, <<"r">>, <<"e">>, 1)>>],
      [exists |-> TRUE, keyed |-> TRUE,
       entries |-> <<ChangeEntry("edit", <<"r","1">>, <<>>, <<"e">>, 1)>>] }

RunInit ==
    /\ r_keys \in {{"version", "config", "records"}, {"version", "config"}}
    /\ r_records \in IF "records" \in r_keys THEN RunRegistries ELSE {<<>>}
    /\ r_schema \in Schemas
    /\ r_strict \in BOOLEAN
    /\ r_aliases \in AliasFiles
    /\ r_changes \in ChangeLogs
    /\ r_errors = <<>>
    /\ r_warnings = <<>>
    /\ r_pc = "shape"

RunIdle ==
    /\ r_keys = {}
    /\ r_records = <<>>
    /\ r_schema = [required |-> <<>>, record_required |-> <<>>]
    /\ r_strict = FALSE
    /\ r_aliases = NoData
    /\ r_changes = NoData
    /\ r_errors = <<>>
    /\ r_warnings = <<>>
    /\ r_pc = "off"

\* A call of main that raises ValidationError ends the run; one that
\* returns lets it go on at next.
RunCall(pc, raised, next) ==
    /\ r_pc = pc
    /\ r_errors' = raised
    /\ r_pc' = IF raised # <<>> THEN "failed" ELSE next
    /\ UNCHANGED <<r_keys, r_records, r_schema, r_strict, r_aliases, r_changes>>
    /\ UNCHANGED notRun

\* Line 280: validate_schema_shape(reg, schema_path)
RunShape ==
    /\ RunCall("shape", validate_schema_shape(r_keys, r_records, r_schema), "records")
    /\ UNCHANGED r_warnings

\* Line 281: warnings = validate_records(reg, strict=args.strict)
RunRecords ==
    /\ RunCall("records", validate_records(r_records, r_strict).errors, "aliases")
    /\ r_warnings' = IF validate_records(r_records, r_strict).errors # <<>> THEN <<>>
                     ELSE validate_records(r_records, r_strict).warns

\* Line 282: validate_aliases(aliases_path)
RunAliases ==
    /\ RunCall("aliases", validate_aliases(r_aliases), "change_log")
    /\ UNCHANGED r_warnings

\* Line 283: validate_change_log(changelog_path)
RunChangeLog ==
    /\ RunCall("change_log", validate_change_log(r_changes), "report")
    /\ UNCHANGED r_warnings

\* Lines 288-297: the warnings are printed and the run passes.
RunReport ==
    /\ r_pc = "report"
    /\ r_pc' = "passed"
    /\ UNCHANGED <<r_keys, r_records, r_schema, r_strict, r_aliases, r_changes, r_errors,
                   r_warnings>>
    /\ UNCHANGED notRun

RunNext == RunShape \/ RunRecords \/ RunAliases \/ RunChangeLog \/ RunReport

(***************************************************************************)
(* build_sources_artifacts.main followed by                                *)
(* validate_sources.check_generated_artifacts.                             *)
(***************************************************************************)

\* The registries built and checked: none, one or two records, out of order,
\* with a value that differs in whitespace only, with a form feed in a
\* comment, with another title, with another id, without a key.
DriftRegistries ==
    {<<>>,
     <<GoodRecord(1)>>,
     <<GoodRecord(2), GoodRecord(1)>>,
     <<[GoodRecord(1) EXCEPT !.legend = <<" ","l"," ">>]>>,
     <<[GoodRecord(1) EXCEPT !.qcommentsforta = <<"a","\f","b">>]>>,
     <<[GoodRecord(1) EXCEPT !.bib.title = <<"N","e","w">>]>>,
     <<[GoodRecord(1) EXCEPT !.id = <<"o","t","h","e","r">>]>>,
     <<[GoodRecord(1) EXCEPT !.source = <<>>, !.citekey = <<>>]>>}

DriftInit ==
    /\ ga_records \in DriftRegistries
    /\ ga_dictionary = WrittenTemplate
    /\ ga_bib = NoBib
    /\ ga_tmp_dict = NoFile
    /\ ga_tmp_bib = NoBib
    /\ ga_since = "start"
    /\ ga_error = ""
    /\ ga_pc = "build"

DriftIdle ==
    /\ ga_records = <<>>
    /\ ga_dictionary = NoFile
    /\ ga_bib = NoBib
    /\ ga_tmp_dict = NoFile
    /\ ga_tmp_bib = NoBib
    /\ ga_since = "start"
    /\ ga_error = ""
    /\ ga_pc = "off"

\* build_sources_artifacts.main, lines 36-48, with the dictionary as template
\* and as output.
DriftBuild ==
    /\ ga_pc = "build"
    /\ ga_dictionary' = write_sources_sheet(ga_dictionary,
                                            SheetRows(records_sorted(ga_records)))
    /\ ga_bib' = BibFile(BibText(records_sorted(ga_records)))
    /\ ga_since' = "build"
    /\ ga_pc' = "built"
    /\ UNCHANGED <<ga_records, ga_tmp_dict, ga_tmp_bib, ga_error>>
    /\ UNCHANGED notDrift

\* The registry is edited after the build.
DriftEdit ==
    /\ ga_pc = "built"
    /\ ga_since = "build"
    /\ ga_records' \in DriftRegistries \ {ga_records}
    /\ ga_since' = "edit"
    /\ UNCHANGED <<ga_dictionary, ga_bib, ga_tmp_dict, ga_tmp_bib, ga_error, ga_pc>>
    /\ UNCHANGED notDrift

\* The .bib file is removed after the build.
DriftRemoveBib ==
    /\ ga_pc = "built"
    /\ ga_since = "build"
    /\ ga_bib' = NoBib
    /\ ga_since' = "remove"
    /\ UNCHANGED <<ga_records, ga_dictionary, ga_tmp_dict, ga_tmp_bib, ga_error, ga_pc>>
    /\ UNCHANGED notDrift

\* check_generated_artifacts, lines 232-248: the dictionary is copied and
\* build_sources_artifacts.py writes the sheet and the .bib file into the
\* temporary directory.
DriftRegenerate ==
    /\ ga_pc = "built"
    /\ ga_tmp_dict' = write_sources_sheet(ga_dictionary,
                                          SheetRows(records_sorted(ga_records)))
    /\ ga_tmp_bib' = BibFile(BibText(records_sorted(ga_records)))
    /\ ga_pc' = "compare_bib"
    /\ UNCHANGED <<ga_records, ga_dictionary, ga_bib, ga_since, ga_error>>
    /\ UNCHANGED notDrift

\* Lines 250-254: the .bib file is there and has the text regenerated.
DriftCompareBib ==
    /\ ga_pc = "compare_bib"
    /\ IF ~ga_bib.exists
       THEN ga_error' = "Bib artifact missing" /\ ga_pc' = "failed"
       ELSE IF ga_tmp_bib.text # ga_bib.text
       THEN ga_error' = "Generated bib is out of date" /\ ga_pc' = "failed"
       ELSE ga_error' = "" /\ ga_pc' = "compare_sheet"
    /\ UNCHANGED <<ga_records, ga_dictionary, ga_bib, ga_tmp_dict, ga_tmp_bib, ga_since>>
    /\ UNCHANGED notDrift

\* Lines 256-259: both sheets are read and their rows compared.
DriftCompareSheet ==
    /\ ga_pc = "compare_sheet"
    /\ LET current_rows == read_sources_sheet(ga_dictionary)
           rebuilt_rows == read_sources_sheet(ga_tmp_dict)
       IN  IF ~current_rows.ok \/ ~rebuilt_rows.ok
           THEN ga_error' = "ParseError" /\ ga_pc' = "failed"
           ELSE IF current_rows.rows # rebuilt_rows.rows
           THEN ga_error' = "Sources sheet is out of date" /\ ga_pc' = "failed"
           ELSE ga_error' = "" /\ ga_pc' = "passed"
    /\ UNCHANGED <<ga_records, ga_dictionary, ga_bib, ga_tmp_dict, ga_tmp_bib, ga_since>>
    /\ UNCHANGED notDrift

DriftNext ==
    \/ DriftBuild
    \/ DriftEdit
    \/ DriftRemoveBib
    \/ DriftRegenerate
    \/ DriftCompareBib
    \/ DriftCompareSheet

(***************************************************************************)
(* parse_bib_entries and parse_bib_fields step by step, one action for     *)
(* each turn of each loop, on texts made of well-formed and malformed      *)
(* blocks.  Positions count from 1: position p stands for index p - 1.     *)
(***************************************************************************)

\* The number of blocks of a text.
MaxBlocks == 3

\* The blocks: a well-formed entry, a block without a comma behind its key,
\* an entry whose closing brace is missing, an entry that ends inside a
\* quoted value behind a backslash, an "@" with no brace behind it, an entry
\* that ends behind the "=" of a field and one that ends behind a comma.
BlockKinds == {"good", "nocomma", "noclose", "quote", "at", "novalue", "noname"}

BlockKey(n) == <<"K", DigitChar(n)>>

BlockText(kind, n) ==
    CASE kind = "good" -> <<"@", "b", "o", "o", "k", "{">> \o BlockKey(n) \o <<",", " ", "t", "i", "t", "l", "e", " ", "=", " ", "{", "T", "}", ",", " ", "y", "e", "a", "r", " ", "=", " ", "2", "0", "2", "0", "}">>
      [] kind = "nocomma" -> <<"@", "c", "o", "m", "m", "e", "n", "t", "{">> \o BlockKey(n) \o <<"}">>
      [] kind = "noclose" -> <<"@", "b", "o", "o", "k", "{">> \o BlockKey(n) \o <<",", " ", "t", "i", "t", "l", "e", " ", "=", " ", "{", "T", "}">>
      [] kind = "quote" -> <<"@", "m", "i", "s", "c", "{">> \o BlockKey(n) \o <<",", " ", "n", "o", "t", "e", " ", "=", " ", "\"", "a", "\\", "}">>
      [] kind = "novalue" -> <<"@", "m", "i", "s", "c", "{">> \o BlockKey(n) \o <<",", " ", "n", "o", "t", "e", " ", "=", " ", "}">>
      [] kind = "noname" -> <<"@", "m", "i", "s", "c", "{">> \o BlockKey(n) \o <<",", " ", "n", "o", "t", "e", " ", "=", " ", "a", ",", " ", "}">>
      [] kind = "at" -> <<"@", "m", "i", "s", "c">>

RECURSIVE BlocksText(_, _)
\* The text of the blocks from the n-th on, one block to a line.
BlocksText(blocks, n) ==
    IF n > Len(blocks) THEN <<>>
    ELSE BlockText(blocks[n], n) \o (IF n < Len(blocks) THEN <<NL>> ELSE <<>>)
         \o BlocksText(blocks, n + 1)

\* Lines 170 and 176: i = j + 1
AfterEntryStuck(at, j) == at

AfterEntry(at, j) == j + 1

ScanInit ==
    /\ scan_blocks \in UNION {[1..n -> BlockKinds] : n \in 1..MaxBlocks}
    /\ pe_text = BlocksText(scan_blocks, 1)
    /\ pe_i = 1
    /\ pe_entries = <<>>
    /\ pe_at = 0 /\ pe_brace = 0 /\ pe_j = 0 /\ pe_depth = 0
    /\ pe_key = <<>>
    /\ pf_blob = <<>> /\ pf_p = 0 /\ pf_start = 0 /\ pf_depth = 0
    /\ pf_name = <<>> /\ pf_value = <<>> /\ pf_fields = <<>>
    /\ scan_pc = "while_entries"

ScanIdle ==
    /\ scan_blocks = <<>>
    /\ pe_text = <<>>
    /\ pe_i = 0
    /\ pe_entries = <<>>
    /\ pe_at = 0 /\ pe_brace = 0 /\ pe_j = 0 /\ pe_depth = 0
    /\ pe_key = <<>>
    /\ pf_blob = <<>> /\ pf_p = 0 /\ pf_start = 0 /\ pf_depth = 0
    /\ pf_name = <<>> /\ pf_value = <<>> /\ pf_fields = <<>>
    /\ scan_pc = "off"

\* parse_bib_entries, lines 150-159: the next "@" and the "{" behind it; the
\* scan ends when either is missing.
ScanFindEntry ==
    /\ scan_pc = "while_entries"
    /\ LET at == Find(pe_text, "@", pe_i)
           brace == IF at = 0 THEN 0 ELSE Find(pe_text, "{", at)
       IN  IF brace = 0
           THEN /\ scan_pc' = "done"
                /\ UNCHANGED <<pe_at, pe_brace, pe_j, pe_depth>>
           ELSE /\ pe_at' = at
                /\ pe_brace' = brace
                /\ pe_j' = brace + 1
                /\ pe_depth' = 1
                /\ scan_pc' = "while_depth"
    /\ UNCHANGED <<scan_blocks, pe_text, pe_i, pe_entries, pe_key>>
    /\ UNCHANGED <<pf_blob, pf_p, pf_start, pf_depth, pf_name, pf_value, pf_fields>>
    /\ UNCHANGED notScan

\* parse_bib_entries, lines 160-167: one turn of the loop that looks for the
\* brace closing the entry.
ScanEntryBrace ==
    /\ scan_pc = "while_depth"
    /\ IF pe_j > Len(pe_text)
       THEN /\ scan_pc' = "raw"
            /\ UNCHANGED <<pe_j, pe_depth>>
       ELSE IF pe_text[pe_j] = "{"
       THEN /\ pe_depth' = pe_depth + 1
            /\ pe_j' = pe_j + 1
            /\ UNCHANGED scan_pc
       ELSE IF pe_text[pe_j] = "}"
       THEN /\ pe_depth' = pe_depth - 1
            /\ IF pe_depth - 1 = 0
               THEN scan_pc' = "raw" /\ UNCHANGED pe_j
               ELSE pe_j' = pe_j + 1 /\ UNCHANGED scan_pc
       ELSE /\ pe_j' = pe_j + 1
            /\ UNCHANGED <<pe_depth, scan_pc>>
    /\ UNCHANGED <<scan_blocks, pe_text, pe_i, pe_entries, pe_at, pe_brace, pe_key>>
    /\ UNCHANGED <<pf_blob, pf_p, pf_start, pf_depth, pf_name, pf_value, pf_fields>>
    /\ UNCHANGED notScan

\* parse_bib_entries, lines 168-174: a block without a comma is skipped, any
\* other is split into its key and the blob parse_bib_fields is called with
\* (lines 182-184).
ScanEntryRaw ==
    /\ scan_pc = "raw"
    /\ LET raw == Slice(pe_text, pe_brace + 1, pe_j - 1)
           comma == Find(raw, ",", 1)
       IN  IF comma = 0
           THEN /\ pe_i' = AfterEntry(pe_at, pe_j)
                /\ scan_pc' = "while_entries"
                /\ UNCHANGED <<pe_key, pf_blob, pf_p, pf_fields>>
           ELSE /\ pe_key' = Strip(Slice(raw, 1, comma - 1))
                /\ pf_blob' = Slice(raw, comma + 1, Len(raw))
                /\ pf_p' = 1
                /\ pf_fields' = <<>>
                /\ scan_pc' = "while_fields"
                /\ UNCHANGED pe_i
    /\ UNCHANGED <<scan_blocks, pe_text, pe_entries, pe_at, pe_brace, pe_j, pe_depth>>
    /\ UNCHANGED <<pf_start, pf_depth, pf_name, pf_value>>
    /\ UNCHANGED notScan

\* What every step of parse_bib_fields leaves alone.
FieldsFrame ==
    /\ UNCHANGED <<scan_blocks, pe_text, pe_i, pe_entries, pe_at, pe_brace, pe_j,
                   pe_depth, pe_key, pf_blob>>
    /\ UNCHANGED notScan

\* parse_bib_fields, line 185: while p < n
ScanFieldsWhile ==
    /\ scan_pc = "while_fields"
    /\ scan_pc' = IF pf_p > Len(pf_blob) THEN "return_fields" ELSE "skip_sep"
    /\ UNCHANGED <<pf_p, pf_start, pf_depth, pf_name, pf_value, pf_fields>>
    /\ FieldsFrame

\* parse_bib_fields, lines 186-187 and 195-196: one turn of a loop that skips
\* the characters cs, which leads to the step next.
ScanSkip(pc, cs, next) ==
    /\ scan_pc = pc
    /\ IF pf_p <= Len(pf_blob) /\ pf_blob[pf_p] \in cs
       THEN pf_p' = pf_p + 1 /\ UNCHANGED scan_pc
       ELSE scan_pc' = next /\ UNCHANGED pf_p
    /\ UNCHANGED <<pf_start, pf_depth, pf_name, pf_value, pf_fields>>
    /\ FieldsFrame

\* lines 186-187
ScanSkipSeparators == ScanSkip("skip_sep", {" ", NL, "\r", "\t", ","}, "name")

\* parse_bib_fields, lines 188-194: the name in front of the next "=".
ScanFieldName ==
    /\ scan_pc = "name"
    /\ LET eq == Find(pf_blob, "=", pf_p)
       IN  IF pf_p > Len(pf_blob) \/ eq = 0
           THEN /\ scan_pc' = "return_fields"
                /\ UNCHANGED <<pf_p, pf_name>>
           ELSE /\ pf_name' = Lower(Strip(Slice(pf_blob, pf_p, eq - 1)))
                /\ pf_p' = eq + 1
                /\ scan_pc' = "skip_ws"
    /\ UNCHANGED <<pf_start, pf_depth, pf_value, pf_fields>>
    /\ FieldsFrame

\* lines 195-196
ScanSkipBlanks == ScanSkip("skip_ws", {" ", NL, "\r", "\t"}, "value")

\* parse_bib_fields, lines 197-203, 210-212 and 219-220: the kind of value
\* that starts at p.
ScanValueStart ==
    /\ scan_pc = "value"
    /\ IF pf_p > Len(pf_blob)
       THEN /\ scan_pc' = "return_fields"
            /\ UNCHANGED <<pf_p, pf_start, pf_depth>>
       ELSE IF pf_blob[pf_p] = "{"
       THEN /\ pf_depth' = 1
            /\ pf_p' = pf_p + 1
            /\ pf_start' = pf_p + 1
            /\ scan_pc' = "brace_value"
       ELSE IF pf_blob[pf_p] = "\""
       THEN /\ pf_p' = pf_p + 1
            /\ pf_start' = pf_p + 1
            /\ scan_pc' = "quote_value"
            /\ UNCHANGED pf_depth
       ELSE /\ pf_start' = pf_p
            /\ scan_pc' = "bare_value"
            /\ UNCHANGED <<pf_p, pf_depth>>
    /\ UNCHANGED <<pf_name, pf_value, pf_fields>>
    /\ FieldsFrame

\* parse_bib_fields, lines 204-209: one turn of the loop over a braced value.
ScanBraceValue ==
    /\ scan_pc = "brace_value"
    /\ IF pf_p <= Len(pf_blob) /\ pf_depth > 0
       THEN /\ pf_depth' = IF pf_blob[pf_p] = "{" THEN pf_depth + 1
                           ELSE IF pf_blob[pf_p] = "}" THEN pf_depth - 1
                           ELSE pf_depth
            /\ pf_p' = pf_p + 1
            /\ UNCHANGED <<pf_value, scan_pc>>
       ELSE /\ pf_value' = Slice(pf_blob, pf_start, pf_p - 2)
            /\ scan_pc' = "store"
            /\ UNCHANGED <<pf_p, pf_depth>>
    /\ UNCHANGED <<pf_start, pf_name, pf_fields>>
    /\ FieldsFrame

\* Lines 214-216: a backslash takes the character behind it along.
QuoteStep(blob, p) == IF blob[p] = "\\" THEN p + 2 ELSE p + 1

\* parse_bib_fields, lines 213-218: one turn of the loop over a quoted value.
ScanQuoteValue ==
    /\ scan_pc = "quote_value"
    /\ IF pf_p <= Len(pf_blob) /\ pf_blob[pf_p] # "\""
       THEN /\ pf_p' = QuoteStep(pf_blob, pf_p)
            /\ UNCHANGED <<pf_value, scan_pc>>
       ELSE /\ pf_value' = Slice(pf_blob, pf_start, Min(pf_p - 1, Len(pf_blob)))
            /\ pf_p' = pf_p + 1
            /\ scan_pc' = "store"
    /\ UNCHANGED <<pf_start, pf_depth, pf_name, pf_fields>>
    /\ FieldsFrame

\* parse_bib_fields, lines 221-223: one turn of the loop over a bare value.
ScanBareValue ==
    /\ scan_pc = "bare_value"
    /\ IF pf_p <= Len(pf_blob) /\ pf_blob[pf_p] \notin {",", NL, "\r"}
       THEN /\ pf_p' = pf_p + 1
            /\ UNCHANGED <<pf_value, scan_pc>>
       ELSE /\ pf_value' = Strip(Slice(pf_blob, pf_start, pf_p - 1))
            /\ scan_pc' = "store"
            /\ UNCHANGED pf_p
    /\ UNCHANGED <<pf_start, pf_depth, pf_name, pf_fields>>
    /\ FieldsFrame

\* parse_bib_fields, lines 225-229: the field is stored and the scan resumes
\* behind the next comma.
ScanFieldStore ==
    /\ scan_pc = "store"
    /\ pf_fields' = OdPut(pf_fields, pf_name, Strip(pf_value))
    /\ LET comma == Find(pf_blob, ",", pf_p)
       IN  IF comma = 0
           THEN scan_pc' = "return_fields" /\ UNCHANGED pf_p
           ELSE scan_pc' = "while_fields" /\ pf_p' = comma + 1
    /\ UNCHANGED <<pf_start, pf_depth, pf_name, pf_value>>
    /\ FieldsFrame

\* parse_bib_fields, line 230, and parse_bib_entries, lines 157 and 174-176:
\* the entry is stored under its key and the scan resumes behind it.
ScanEntryStore ==
    /\ scan_pc = "return_fields"
    /\ pe_entries' = OdPut(pe_entries, pe_key,
                           [entry_type |-> Lower(Strip(Slice(pe_text, pe_at + 1, pe_brace - 1))),
                            fields |-> pf_fields])
    /\ pe_i' = AfterEntry(pe_at, pe_j)
    /\ scan_pc' = "while_entries"
    /\ UNCHANGED <<scan_blocks, pe_text, pe_at, pe_brace, pe_j, pe_depth, pe_key>>
    /\ UNCHANGED <<pf_blob, pf_p, pf_start, pf_depth, pf_name, pf_value, pf_fields>>
    /\ UNCHANGED notScan

ScanNext ==
    \/ ScanFindEntry
    \/ ScanEntryBrace
    \/ ScanEntryRaw
    \/ ScanFieldsWhile
    \/ ScanSkipSeparators
    \/ ScanFieldName
    \/ ScanSkipBlanks
    \/ ScanValueStart
    \/ ScanBraceValue
    \/ ScanQuoteValue
    \/ ScanBareValue
    \/ ScanFieldStore
    \/ ScanEntryStore

(***************************************************************************)
(* Specifications: one per component, the other components at rest.        *)
(***************************************************************************)

InitValidate ==
    /\ ValidateInit
    /\ ServerIdle
    /\ SheetIdle
    /\ BibIdle
    /\ ReadIdle
    /\ CodecIdle
    /\ UrlIdle
    /\ RunIdle
    /\ ScanIdle
    /\ HostIdle
    /\ DriftIdle

SpecValidate == InitValidate /\ [][ValidateNext]_vars

InitApply ==
    /\ ApplyInit
    /\ ValidateIdle
    /\ SheetIdle
    /\ BibIdle
    /\ ReadIdle
    /\ CodecIdle
    /\ UrlIdle
    /\ RunIdle
    /\ ScanIdle
    /\ HostIdle
    /\ DriftIdle

SpecApply == InitApply /\ [][ApplyNext]_vars

InitServer ==
    /\ ServerInit
    /\ ValidateIdle
    /\ SheetIdle
    /\ BibIdle
    /\ ReadIdle
    /\ CodecIdle
    /\ UrlIdle
    /\ RunIdle
    /\ ScanIdle
    /\ HostIdle
    /\ DriftIdle

SpecServer == InitServer /\ [][ServerNext]_vars

SpecSerial == InitServer /\ [][SerialNext]_vars

InitEditor ==
    /\ EditorInit
    /\ ValidateIdle
    /\ SheetIdle
    /\ BibIdle
    /\ ReadIdle
    /\ CodecIdle
    /\ UrlIdle
    /\ RunIdle
    /\ ScanIdle
    /\ HostIdle
    /\ DriftIdle

SpecEditor == InitEditor /\ [][EditorNext]_vars

InitHost ==
    /\ HostInit
    /\ ValidateIdle
    /\ SheetIdle
    /\ BibIdle
    /\ ReadIdle
    /\ CodecIdle
    /\ UrlIdle
    /\ RunIdle
    /\ ScanIdle
    /\ DriftIdle

SpecHost == InitHost /\ [][HostNext]_vars

InitDrift ==
    /\ DriftInit
    /\ ValidateIdle
    /\ ServerIdle
    /\ SheetIdle
    /\ BibIdle
    /\ ReadIdle
    /\ CodecIdle
    /\ UrlIdle
    /\ RunIdle
    /\ ScanIdle
    /\ HostIdle

SpecDrift == InitDrift /\ [][DriftNext]_vars

InitSheet ==
    /\ SheetInit
    /\ ValidateIdle
    /\ ServerIdle
    /\ BibIdle
    /\ ReadIdle
    /\ CodecIdle
    /\ UrlIdle
    /\ RunIdle
    /\ ScanIdle
    /\ HostIdle
    /\ DriftIdle

SpecSheet == InitSheet /\ [][SheetNext]_vars

InitBib ==
    /\ BibInit
    /\ ValidateIdle
    /\ ServerIdle
    /\ SheetIdle
    /\ ReadIdle
    /\ CodecIdle
    /\ UrlIdle
    /\ RunIdle
    /\ ScanIdle
    /\ HostIdle
    /\ DriftIdle

SpecBib == InitBib /\ [][BibNext]_vars

InitRead ==
    /\ ReadInit
    /\ ValidateIdle
    /\ ServerIdle
    /\ SheetIdle
    /\ BibIdle
    /\ CodecIdle
    /\ UrlIdle
    /\ RunIdle
    /\ ScanIdle
    /\ HostIdle
    /\ DriftIdle

SpecRead == InitRead /\ [][ReadNext]_vars

InitCodec ==
    /\ CodecInit
    /\ ValidateIdle
    /\ ServerIdle
    /\ SheetIdle
    /\ BibIdle
    /\ ReadIdle
    /\ UrlIdle
    /\ RunIdle
    /\ ScanIdle
    /\ HostIdle
    /\ DriftIdle

SpecCodec == InitCodec /\ [][CodecNext]_vars

InitUrl ==
    /\ UrlInit
    /\ ValidateIdle
    /\ ServerIdle
    /\ SheetIdle
    /\ BibIdle
    /\ ReadIdle
    /\ CodecIdle
    /\ RunIdle
    /\ ScanIdle
    /\ HostIdle
    /\ DriftIdle

SpecUrl == InitUrl /\ [][UrlNext]_vars

InitRun ==
    /\ RunInit
    /\ ValidateIdle
    /\ ServerIdle
    /\ SheetIdle
    /\ BibIdle
    /\ ReadIdle
    /\ CodecIdle
    /\ UrlIdle
    /\ ScanIdle
    /\ HostIdle
    /\ DriftIdle

SpecRun == InitRun /\ [][RunNext]_vars

InitScan ==
    /\ ScanInit
    /\ ValidateIdle
    /\ ServerIdle
    /\ SheetIdle
    /\ BibIdle
    /\ ReadIdle
    /\ CodecIdle
    /\ UrlIdle
    /\ RunIdle
    /\ HostIdle
    /\ DriftIdle

SpecScan == InitScan /\ [][ScanNext]_vars

\* Every loop of the parsers is a sequential loop: a step that can be taken
\* is taken.
SpecScanFair == SpecScan /\ WF_vars(ScanNext)

(***************************************************************************)
(* Claims about validate_records.                                          *)
(***************************************************************************)

ValidateDone == v_pc \in {"raised", "returned"}

RecordPairs == {p \in (1..Len(v_registry)) \X (1..Len(v_registry)) : p[1] < p[2]}

\* The messages of one kind in a list.
OfKind(msgs, kind) == SelectSeq(msgs, LAMBDA m : m.kind = kind)

\* The pairs of records whose sources are equal after case and whitespace
\* normalization.
SourceCollisions ==
    {p \in RecordPairs :
        normalize_text(v_registry[p[1]].source) = normalize_text(v_registry[p[2]].source)}

\* C1: when two records of the registry have sources that are equal after
\* case and whitespace normalization, validate_records raises, in strict and
\* in non-strict mode, with exactly one duplicate-source error, which names
\* the ids of both records.
C1_DuplicateSourceFatal ==
    (ValidateDone /\ Cardinality(SourceCollisions) = 1) =>
        /\ v_pc = "raised"
        /\ Len(OfKind(errors, "dup_source")) = 1
        /\ \A p \in SourceCollisions :
              {OfKind(errors, "dup_source")[1].first, OfKind(errors, "dup_source")[1].id}
                 = {v_registry[p[1]].id, v_registry[p[2]].id}

\* The pairs of records with the same citekey, as written / after whitespace
\* normalization.
SameCitekeyPairs ==
    {p \in RecordPairs : v_registry[p[1]].citekey = v_registry[p[2]].citekey}

CitekeyCollisions ==
    {p \in RecordPairs :
        normalize_whitespace(v_registry[p[1]].citekey)
            = normalize_whitespace(v_registry[p[2]].citekey)}

Checked(t) == th[t].op = "apply" /\ th[t].pc \notin {"idle", "precheck", "apply"}

\* A call that raised / that went on to mutate.
Raised(t) == Checked(t) /\ th[t].out.raise # ""

Passed(t) == Checked(t) /\ th[t].out.raise = ""

\* The existing records the candidate of a checked call is compared with:
\* all of them for an add, all but the one being edited (the records with the
\* target's id) for an edit.
Others(t) ==
    LET o == th[t].out
        recs == th[t].entry.reg
        tid == IF o.idx > 0 THEN recs[o.idx].id ELSE <<>>
    IN  {i \in 1..Len(recs) : ~(o.mode = "edit" /\ tid # <<>> /\ recs[i].id = tid)}

\* The prospective record of a checked call is an exact duplicate of an
\* existing one: same source, same citekey, same canonical URL or same title
\* and year.
ExactDuplicate(t) ==
    LET c == th[t].out.rec
        recs == th[t].entry.reg
    IN  \E i \in Others(t) :
           \/ c.source # <<>> /\ normalize_whitespace(c.source) = normalize_whitespace(recs[i].source)
           \/ c.citekey # <<>> /\ normalize_whitespace(c.citekey) = normalize_whitespace(recs[i].citekey)
           \/ RecordUrl(c) # <<>> /\ RecordUrl(c) = RecordUrl(recs[i])
           \/ /\ c.bib.title # <<>> /\ c.bib.year # <<>>
              /\ normalize_text(c.bib.title) = normalize_text(recs[i].bib.title)
              /\ normalize_whitespace(c.bib.year) = normalize_whitespace(recs[i].bib.year)

\* The prospective record of a checked call lacks a required field.
RequiredMissing(t) ==
    LET c == th[t].out.rec
    IN  \/ \E f \in {"section", "aggsource", "legend", "source", "citekey", "link"} :
              normalize_whitespace(c[f]) = <<>>
        \/ \E b \in {"entry_type", "title", "author", "year"} :
              normalize_whitespace(c.bib[b]) = <<>>

\* Nothing apply_payload can change has changed since the call was entered.
Untouched(t) ==
    /\ th[t].reg = th[t].entry.reg
    /\ changelog = th[t].entry.changelog
    /\ aliases = th[t].entry.aliases

\* C3: in apply_payload the exact-duplicate and required-field checks run on
\* the existing records plus the candidate, minus the record being edited,
\* before any mutation: a call whose candidate is an exact duplicate or lacks
\* a required field raises, and a call that has raised has left the record
\* list, every record, the changelog and the aliases as it found them.
C3_ValidatedBeforeMutation ==
    \A t \in Threads :
        /\ (Checked(t) /\ (ExactDuplicate(t) \/ RequiredMissing(t))) => Raised(t)
        /\ Raised(t) => (Untouched(t) /\ th[t].pc = "responded" /\ th[t].resp = "error")

\* An edit that would give a record the source of another one has raised,
\* and an add that lacks a field has raised, with everything as before.
C3_Witness ==
    /\ Raised(1)
    /\ th[1].out.raise = "validation"
    /\ th[1].out.mode = "edit"
    /\ ExactDuplicate(1)
    /\ th[1].entry.reg # <<>>
    /\ th[1].entry.changelog # <<>>
    /\ Untouched(1)

\* The value the payload of a call carries for a top-level field / a bib
\* field of the record.
PayloadValue(p, f) ==
    IF f \in {"source", "citekey"} THEN normalize_whitespace(p.record.source_key)
    ELSE normalize_whitespace(p.record[f])

PayloadBibValue(p, b) == normalize_whitespace(p.record.bib[b])

\* A successful edit, once the target record has been overwritten.
EditDone(t) == Passed(t) /\ th[t].out.mode = "edit" /\ th[t].pc # "commit"

\* C4: a successful edit overwrites a field of the target record, top-level
\* or bib, only when the payload carries a non-empty value for it; every
\* field the payload leaves blank, bib.entry_type included, keeps its value.
C4_EditKeepsBlankFields ==
    \A t \in Threads :
        EditDone(t) =>
            LET before == th[t].entry.reg[th[t].out.idx]
                after == th[t].reg[th[t].out.idx]
            IN  /\ \A f \in TopFieldSet :
                      PayloadValue(th[t].payload, f) = <<>> => after[f] = before[f]
                /\ \A b \in SeqToSet(BibFields) :
                      PayloadBibValue(th[t].payload, b) = <<>> => after.bib[b] = before.bib[b]

\* What an edit never touches in a record.
Protected(rec) ==
    [id |-> rec.id, created_at |-> rec.created_at, created_by |-> rec.created_by,
     review |-> [f \in SeqToSet(ReviewFields) |-> rec[f]],
     extra_fields |-> rec.bib.extra_fields]

\* C5: no edit, a rename of source/citekey included, changes the id of a
\* record, its created_at, its created_by, its review-comment fields or its
\* bib.extra_fields: every record of the persisted registry keeps them from
\* one save to the next, so after any sequence of edits the id is the one
\* the record had when it was added.
C5_EditKeepsIdentity ==
    [][\A i \in 1..Len(registry) :
          i <= Len(registry') => Protected(registry'[i]) = Protected(registry[i])]_vars

\* A registry in which a saved rename has left a record whose id is no
\* longer the slug of its source, and whose legacy fields are still there.
C5_Witness ==
    \E i \in 1..Len(registry) :
        /\ registry[i].id = <<"o","l","d">>
        /\ registry[i].source = <<"K","9">>
        /\ registry[i].qcommentsforta # <<>>
        /\ registry[i].bib.extra_fields # {}
        /\ aliases # <<>>

(***************************************************************************)
(* Claims about the server.                                                *)
(***************************************************************************)

Ids(records) == {records[i].id : i \in 1..Len(records)}

\* The changelog holds a "delete" entry for the record id.
DeleteLogged(id) ==
    \E k \in 1..Len(changelog) :
        changelog[k].operation = "delete" /\ changelog[k].record_id = id

\* Thread t is about to save a registry from which its delete request has
\* removed the record id.
DeleteSaving(t, id) ==
    th[t].pc = "save" /\ th[t].op = "delete" /\ th[t].chg.rec_id = id

\* C6: a record disappears from the persisted registry only in the save of a
\* delete_entry request for it, and by then the changelog holds a "delete"
\* entry with the record's id.
C6_OnlyDeleteRemoves ==
    [][\A id \in Ids(registry) \ Ids(registry') :
          \E t \in Threads : DeleteSaving(t, id) /\ DeleteLogged(id)]_vars

\* A request that has loaded the registry and has not yet answered.
InFlight(t) == th[t].pc \notin {"idle", "responded"}

\* C7: at most one mutation request is in flight at any instant, and a
\* request that is about to save finds the registry on disk as it was when
\* the request loaded it, so that it overwrites nobody's saved change.
C7_OneMutationAtATime ==
    /\ Cardinality({t \in Threads : InFlight(t)}) <= 1
    /\ \A t \in Threads : th[t].pc = "save" => registry = th[t].loaded

\* Two requests in flight, one of them about to save a registry that lacks
\* the record the other one has saved meanwhile.
LostUpdate ==
    \E t \in Threads :
        /\ th[t].pc = "save"
        /\ Ids(registry) \ Ids(th[t].reg) # {}
        /\ Ids(registry) \ Ids(th[t].loaded) # {}
        /\ th[t].op = "apply"

(***************************************************************************)
(* Claims about the artifact writers.                                      *)
(***************************************************************************)

\* The template package as write_sources_sheet found it.
TemplateAtStart == IF s_template = OutputPath THEN s_old ELSE fs[TemplatePath]

\* The complete new package: the template's entries under their names and
\* in their order, the Sources worksheet part and the workbook part replaced.
ExpectedPackage ==
    LET t == TemplateAtStart
        sheet == locate_sources_sheet(t).path
    IN  Package([i \in 1..Len(t.entries) |->
                    Entry(t.entries[i].name,
                          IF t.entries[i].name = sheet THEN build_sources_sheet_xml(s_rows)
                          ELSE IF t.entries[i].name = WorkbookName
                          THEN update_filter_database_range(t.entries[i].content,
                                                            Len(s_rows) + 1)
                          ELSE t.entries[i].content)])

\* C8: at every point of a write_sources_sheet call, a crash or an error
\* included, the output path holds the complete package that was there
\* before the call (or nothing) or the complete new package; until the
\* rename it holds the old one, while the new one is built at the temporary
\* path, and after the rename the temporary path is gone.
C8_OutputAlwaysComplete ==
    s_pc # "off" =>
        /\ fs[OutputPath] \in {s_old, ExpectedPackage}
        /\ s_pc \in {"start", "create", "loop", "replace", "error", "crashed"}
              => fs[OutputPath] = s_old
        /\ s_pc = "done"
              => fs[OutputPath] = ExpectedPackage /\ ~fs[tmp_output(OutputPath)].exists

\* A crash in the middle of the copy loop: a partial package at the
\* temporary path, the old package still at the output path.
C8_Witness ==
    /\ s_pc = "crashed"
    /\ fs[OutputPath] = s_old
    /\ s_old.exists
    /\ tmp_output(OutputPath) # OutputPath
    /\ fs[tmp_output(OutputPath)].exists
    /\ ~fs[tmp_output(OutputPath)].closed
    /\ Len(fs[tmp_output(OutputPath)].entries) \in 1..(Len(s_names) - 1)

\* The new text of the .bib file.
ExpectedBib == BibFile(BibText(b_records))

\* C9: write_bib replaces the .bib file atomically: after a crash during
\* the write the target path holds the file that was there before or the
\* complete new text, never a truncated or partially written one.
C9_BibAlwaysComplete ==
    b_pc = "crashed" => b_file \in {b_old, ExpectedBib}

\* C10: the package write_sources_sheet produces has the entry names of the
\* template in the template's order, and every entry other than the Sources
\* worksheet part and xl/workbook.xml has the content of the template's
\* entry of that name.
C10_OtherEntriesCopied ==
    s_pc = "done" =>
        LET out == fs[OutputPath]
            t == TemplateAtStart
        IN  /\ namelist(out) = namelist(t)
            /\ \A i \in 1..Len(out.entries) :
                  out.entries[i].name \notin {locate_sources_sheet(t).path, WorkbookName}
                     => out.entries[i].content = ReadEntry(t, out.entries[i].name)

\* A finished write over a template of five parts whose worksheet part and
\* workbook part have both changed.
C10_Witness ==
    /\ s_pc = "done"
    /\ Len(fs[OutputPath].entries) = 5
    /\ s_rows # <<>>
    /\ ReadEntry(fs[OutputPath], SheetName) # ReadEntry(TemplateAtStart, SheetName)
    /\ ReadEntry(fs[OutputPath], WorkbookName) # ReadEntry(TemplateAtStart, WorkbookName)
    /\ ReadEntry(fs[OutputPath], RelsName) = ReadEntry(TemplateAtStart, RelsName)

(***************************************************************************)
(* Claims about read_sources_sheet.                                        *)
(***************************************************************************)

\* Whether a row given to write_sources_sheet has a non-blank value.
HasValue(row) ==
    \E c \in 1..Len(SOURCES_HEADERS) : normalize_whitespace(row[SOURCES_HEADERS[c]]) # <<>>

\* Whether a record read equals a row written, field by field under
\* whitespace normalisation, and has no other field.
SameRow(record, row) ==
    /\ \A c \in 1..Len(SOURCES_HEADERS) :
          /\ Has(record, HeaderText[c])
          /\ normalize_whitespace(Get(record, HeaderText[c]))
                = normalize_whitespace(row[SOURCES_HEADERS[c]])
    /\ Cardinality(record) = Len(SOURCES_HEADERS)

\* The rows written that a read has to return.
RowsKept == SelectSeq(rd_rows, HasValue)

\* C11: write_sources_sheet followed by read_sources_sheet returns, in the
\* same order, exactly the rows written that have a non-blank value, each
\* equal field by field under whitespace normalisation to the row written;
\* rows whose every value is blank are dropped.
C11_WriteThenReadReturnsRows ==
    (rd_pc = "done" /\ rd_from = "write") =>
        /\ rd_out.ok
        /\ Len(rd_out.rows) = Len(RowsKept)
        /\ \A i \in 1..Len(RowsKept) : SameRow(rd_out.rows[i], RowsKept[i])

\* The rows of the worksheet part of the package read, and its row 1.
GivenRows == ReadEntry(rd_file, SheetName).data

GivenHeaderVals ==
    IF \E i \in 1..Len(GivenRows) : GivenRows[i].r = 1
    THEN RowVals(GivenRows[CHOOSE i \in 1..Len(GivenRows) : GivenRows[i].r = 1],
                 SharedStrings(rd_file))
    ELSE {}

\* The header of a column as the sheet gives it: the text of its row-1 cell,
\* or the default header of that position when that cell is blank or there
\* is no such cell or no row 1.
HeaderWanted(idx) ==
    IF normalize_whitespace(ValOf(GivenHeaderVals, idx)) # <<>>
    THEN ValOf(GivenHeaderVals, idx)
    ELSE HeaderText[idx]

\* The data rows of the sheet that have a value, in document order.
DataRowsWanted ==
    SelectSeq(GivenRows,
              LAMBDA row : row.r # 1 /\ AnyValue(RowVals(row, SharedStrings(rd_file))))

\* C12: read_sources_sheet names each column by its row-1 cell and by the
\* default header of the column's position when that cell is blank and when
\* row 1 is absent altogether, and returns the data rows under those names.
C12_HeaderFallsBackToDefault ==
    (rd_pc = "done" /\ rd_from = "given") =>
        /\ rd_out.ok
        /\ Len(rd_out.rows) = Len(DataRowsWanted)
        /\ \A i \in 1..Len(DataRowsWanted) :
              \A idx \in 1..Len(SOURCES_HEADERS) :
                 /\ Has(rd_out.rows[i], HeaderWanted(idx))
                 /\ Get(rd_out.rows[i], HeaderWanted(idx))
                       = ValOf(RowVals(DataRowsWanted[i], SharedStrings(rd_file)), idx)

(***************************************************************************)
(* Claims C13-C15: the bibliography codec.                                 *)
(***************************************************************************)

\* The recognized fields of a bib whose value is not blank, in the fixed order.
FieldsGiven(bib) ==
    SelectSeq(ordered_fields, LAMBDA f : normalize_whitespace(bib[f[1]]) # <<>>)

\* The key of the recognized field whose name is the text.
FieldKey(name) ==
    ordered_fields[CHOOSE i \in 1..Len(ordered_fields) : ordered_fields[i][2] = name][1]

\* The entry type render_bib_entry writes for a bib: lower case, "misc" when blank.
TypeWanted(bib) ==
    IF normalize_text(bib.entry_type) = <<>> THEN Misc ELSE normalize_text(bib.entry_type)

\* The entry parsed under the rendered key.
EntryBack == OdGet(cd_entries, cd_key, [entry_type |-> <<>>, fields |-> <<>>])

\* C13: for an entry with recognized fields only, rendering and then parsing
\* yields under the rendered key the entry type and exactly the non-blank
\* fields of the original, each value equal under whitespace normalization.
C13_RenderThenParseReturnsFields ==
    (cd_pc = "parsed" /\ cd_from = "bib" /\ cd_bib.extra_fields = {}) =>
        /\ OdHas(cd_entries, cd_key)
        /\ EntryBack.entry_type = TypeWanted(cd_bib)
        /\ {EntryBack.fields[i][1] : i \in 1..Len(EntryBack.fields)}
              = {FieldsGiven(cd_bib)[i][2] : i \in 1..Len(FieldsGiven(cd_bib))}
        /\ \A i \in 1..Len(EntryBack.fields) :
              EntryBack.fields[i][1] \in RecognizedNames =>
                 normalize_whitespace(EntryBack.fields[i][2])
                    = normalize_whitespace(cd_bib[FieldKey(EntryBack.fields[i][1])])

RECURSIVE SplitLines(_)
\* text.split("\n")
SplitLines(text) ==
    IF Find(text, NL, 1) = 0 THEN <<text>>
    ELSE <<Slice(text, 1, Find(text, NL, 1) - 1)>>
         \o SplitLines(Slice(text, Find(text, NL, 1) + 1, Len(text)))

\* The field names of a rendered entry, line by line: the lines between the
\* opening line and the closing brace, each "  name = {value}".
LineNames(text) ==
    [i \in 1..(Len(SplitLines(text)) - 2) |->
        Slice(SplitLines(text)[i + 1], 3, Find(SplitLines(text)[i + 1], "=", 1) - 2)]

\* The names of the extra fields of a bib whose value is not blank.
ExtrasGiven(bib) == {p[1] : p \in {q \in bib.extra_fields : normalize_whitespace(q[2]) # <<>>}}

Carried(fields, bib) ==
    \A i \in 1..Len(fields) :
        IF fields[i][1] \in RecognizedNames THEN bib[FieldKey(fields[i][1])] = fields[i][2]
        ELSE fields[i] \in bib.extra_fields

\* The entry map_row finds for the row.
RowEntry == OdGet(cd_entries, RowKey(cd_row), [entry_type |-> Misc, fields |-> <<>>])

\* C15: parse_bib_paste and map_row keep every field of the parsed entry:
\* under its own key when the name is recognized, in extra_fields otherwise.
C15_NoParsedFieldDropped ==
    /\ (cd_pc = "pasted" /\ cd_paste.raise = "") =>
           Carried(parse_bib_entries(cd_text)[1][2].fields, cd_paste.bib)
    /\ (cd_pc = "mapped" /\ OdHas(cd_entries, RowKey(cd_row))) =>
           Carried(RowEntry.fields, cd_record.bib)

\* C15 witness: map_row has mapped an entry that has recognized fields and
\* fields under other names.
C15_Witness ==
    /\ cd_pc = "mapped" /\ OdHas(cd_entries, RowKey(cd_row))
    /\ \E i \in 1..Len(RowEntry.fields) : RowEntry.fields[i][1] \in RecognizedNames
    /\ \E i \in 1..Len(RowEntry.fields) : RowEntry.fields[i][1] \notin RecognizedNames

(***************************************************************************)
(* Claim C16: normalize_url.                                               *)
(***************************************************************************)

\* Two URLs that differ at most in the scheme, the case of the host, repeated
\* slashes and a trailing slash.
SameResource(a, b) ==
    /\ Lower(a.host) = Lower(b.host)
    /\ a.segs = b.segs
    /\ a.query = b.query

\* C16: two URLs that differ only in scheme, host case, repeated path
\* separators and a trailing slash have the same normal form.
C16_SchemeCaseSlashInsensitive ==
    (u_norm # <<>> /\ u_norm[1].done /\ u_norm[2].done
        /\ SameResource(u_parts[1], u_parts[2])) =>
        u_norm[1].value = u_norm[2].value

(***************************************************************************)
(* Claim C17: the validation run on a registry with several missing        *)
(* fields.                                                                 *)
(***************************************************************************)

\* The required fields a record lacks: the blank ones, and a year that is
\* not four digits.
MissingFields(rec) ==
    {f \in {"id", "source", "citekey", "link"} : normalize_whitespace(rec[f]) = <<>>}
    \cup {f \in {"bib.entry_type", "bib.title", "bib.author"} :
            normalize_whitespace(rec.bib[IF f = "bib.entry_type" THEN "entry_type"
                                         ELSE IF f = "bib.title" THEN "title"
                                         ELSE "author"]) = <<>>}
    \cup {f \in {"bib.year"} : ~(Len(Strip(rec.bib.year)) = 4
                                  /\ \A i \in 1..4 : Strip(rec.bib.year)[i] \in Digits)}

\* The kind of the message of validate_records that names the field.
KindNaming(f) ==
    CASE f = "id" -> "missing_id"
      [] f = "source" -> "missing_source"
      [] f = "citekey" -> "missing_citekey"
      [] f = "link" -> "missing_link"
      [] f = "bib.entry_type" -> "bib_entry_type_required"
      [] f = "bib.title" -> "bib_title_required"
      [] f = "bib.author" -> "bib_author_required"
      [] f = "bib.year" -> "bib_year_must_be_YYYY"

\* The message names field f of the i-th record: a message of
\* validate_schema_shape by record number, one of validate_records by id.
Names(m, i, f) ==
    \/ m.kind = "record_missing_required_field" /\ m.id = i /\ m.val = f
    \/ m.kind = KindNaming(f) /\ (f = "id" \/ m.id = r_records[i].id)

\* C17: when the run has ended on a registry with missing or malformed
\* required fields, it has failed and its one failure names every such field
\* of every record, a missing bib.year among them.
C17_AllMissingFieldsReported ==
    (r_pc \in {"passed", "failed"}
        /\ \E i \in 1..Len(r_records) : MissingFields(r_records[i]) # {}) =>
        /\ r_pc = "failed"
        /\ \A i \in 1..Len(r_records) : \A f \in MissingFields(r_records[i]) :
              \E k \in 1..Len(r_errors) : Names(r_errors[k], i, f)

(***************************************************************************)
(* Claims C18-C20: validate_records across modes and orders.               *)
(***************************************************************************)

\* The issues --strict makes fatal (validate_sources.py line 271): duplicate
\* citekey, URL and title/year, and URL and DOI format issues.
StrictFatalKinds ==
    {"invalid_link", "invalid_ref_link", "invalid_bib_url", "invalid_bib_doi",
     "dup_citekey", "dup_url", "dup_title_year"}

\* The error list of strict validation of the registry being validated.
StrictErrors == validate_records(v_registry, TRUE).errors

\* C18: after non-strict validation, every error it reports and every
\* warning of a kind that strict mode makes fatal is in the error list that
\* strict validation of the same registry reports.
C18_StrictKeepsEveryFatalIssue ==
    (ValidateDone /\ ~strict) =>
        /\ \A k \in 1..Len(errors) : \E j \in 1..Len(StrictErrors) : StrictErrors[j] = errors[k]
        /\ \A k \in 1..Len(warns) :
              warns[k].kind \in StrictFatalKinds =>
                 \E j \in 1..Len(StrictErrors) : StrictErrors[j] = warns[k]

\* C18 witness: a non-strict run has ended with an error and with a warning
\* that strict mode makes fatal.
C18_Witness ==
    /\ ValidateDone /\ ~strict
    /\ errors # <<>>
    /\ \E k \in 1..Len(warns) : warns[k].kind \in StrictFatalKinds

\* The exact-duplicate messages of a list, as a set.
DuplicateKinds == {"dup_source", "dup_citekey", "dup_url", "dup_title_year"}

Duplicates(msgs) == {msgs[k] : k \in {j \in 1..Len(msgs) : msgs[j].kind \in DuplicateKinds}}

\* The registry with its records in the opposite order.
Reversed(records) == [i \in 1..Len(records) |-> records[Len(records) + 1 - i]]

\* C19: the duplicate messages of a validation are those of the validation
\* of the same records in the opposite order, the same ids in the same places.
C19_DuplicateReportOrderFree ==
    ValidateDone =>
        Duplicates(errors \o warns)
            = Duplicates(validate_records(Reversed(v_registry), strict).errors
                         \o validate_records(Reversed(v_registry), strict).warns)

\* The kinds of the fuzzy findings.
FuzzyKinds == {"fuzzy_title", "fuzzy_author_year", "fuzzy_url_path"}

\* C20: a fuzzy finding is never in the error list, and a validation whose
\* messages are all fuzzy findings returns, in strict mode and without it.
C20_FuzzyNeverBlocks ==
    ValidateDone =>
        /\ \A k \in 1..Len(errors) : errors[k].kind \notin FuzzyKinds
        /\ (\A k \in 1..Len(errors \o warns) : (errors \o warns)[k].kind \in FuzzyKinds) =>
              v_pc = "returned"

\* C20 witness: a strict validation of two records whose titles differ by a
\* trailing period has returned with a fuzzy title warning.
C20_Witness ==
    /\ ValidateDone /\ strict /\ v_pc = "returned"
    /\ \E k \in 1..Len(warns) : warns[k].kind = "fuzzy_title"
    /\ \A k \in 1..Len(warns) : warns[k].kind \in FuzzyKinds

(***************************************************************************)
(* Claim C30: normalize_url applied to its own result.                     *)
(***************************************************************************)

\* C30: normalize_url is idempotent: the normal form of a normal form is that
\* normal form, for URLs with and without a scheme and with upper-case host
\* letters.
C30_NormalizeUrlIdempotent ==
    \A i \in DOMAIN u_again :
        u_again[i].done => u_again[i].value = u_norm[i].value

(***************************************************************************)
(* Claim C29: the loops of parse_bib_entries and parse_bib_fields.         *)
(***************************************************************************)

\* The loops a step belongs to, innermost last.
InEntries == scan_pc \notin {"off", "done"}

InEntryBrace == scan_pc = "while_depth"

InFields ==
    scan_pc \in {"while_fields", "skip_sep", "name", "skip_ws", "value",
                 "brace_value", "quote_value", "bare_value", "store"}

\* A step has taken the control back to the head of a loop, or has gone
\* round an inner loop.
EntriesTurn == scan_pc # "while_entries" /\ scan_pc' = "while_entries"

FieldsTurn == scan_pc = "store" /\ scan_pc' = "while_fields"

InnerTurn ==
    /\ scan_pc' = scan_pc
    /\ scan_pc \in {"while_depth", "skip_sep", "skip_ws", "brace_value",
                    "quote_value", "bare_value"}

\* Every turn of a loop moves the scan position of that loop forward: i in
\* the loop of parse_bib_entries, j in its brace loop, p in the loops of
\* parse_bib_fields.
Advances ==
    /\ EntriesTurn => pe_i' > pe_i
    /\ FieldsTurn => pf_p' > pf_p
    /\ (InnerTurn /\ InEntryBrace) => pe_j' > pe_j
    /\ (InnerTurn /\ InFields) => pf_p' > pf_p

\* C29: parse_bib_entries and parse_bib_fields terminate on every text,
\* texts with unbalanced braces, an unterminated quoted value, a trailing
\* backslash or an "@" without a brace included: every turn of a loop moves
\* the scan position forward, and the scan ends.
C29_ParsersTerminate ==
    /\ [][Advances]_scanVars
    /\ <>(scan_pc \in {"off", "done"})

\* C29 witness: the scan of a text that holds an entry without its closing
\* brace, an entry ending inside a quoted value behind a backslash and an
\* "@" without a brace has ended.
C29_Witness ==
    /\ scan_pc = "done"
    /\ {"noclose", "quote", "at"} \subseteq {scan_blocks[n] : n \in DOMAIN scan_blocks}

(***************************************************************************)
(* Claim C24: malformed blocks in front of well-formed entries.            *)
(***************************************************************************)

Malformed == {"nocomma", "noclose"}

\* What parse_bib_entries is to return for a well-formed block.
GoodEntry ==
    [entry_type |-> <<"b", "o", "o", "k">>,
     fields |-> <<<<<<"t", "i", "t", "l", "e">>, <<"T">>>>, <<<<"y", "e", "a", "r">>, <<"2", "0", "2", "0">>>>>>]

\* The well-formed entries of the text that stand behind a malformed block.
LaterGood ==
    {n \in DOMAIN scan_blocks :
        scan_blocks[n] = "good" /\ \E m \in 1..(n - 1) : scan_blocks[m] \in Malformed}

\* C24: when a text holds a malformed block (no comma behind the key, or the
\* closing brace missing) in front of well-formed entries, parse_bib_entries
\* returns every one of those entries under its own key.
C24_MalformedBlockSkipped ==
    (scan_pc = "done" /\ \A n \in DOMAIN scan_blocks : scan_blocks[n] \in Malformed \cup {"good"}) =>
        \A n \in LaterGood :
            /\ OdHas(pe_entries, BlockKey(n))
            /\ OdGet(pe_entries, BlockKey(n), <<>>) = GoodEntry

(***************************************************************************)
(* Claims C22 and C28: the keys of a record under an edit.                 *)
(***************************************************************************)

\* The target record of a checked edit as apply_payload found it.
Before(t) == th[t].entry.reg[th[t].out.idx]

\* A checked edit of exactly one record.
EditChecked(t) == Checked(t) /\ th[t].out.mode = "edit" /\ th[t].out.idx > 0

\* C22: the rule that source equals citekey holds for new records only: an
\* edit of a record whose source and citekey differ, which changes neither,
\* is not rejected for that difference.
C22_KeyEqualityOnlyOnAdd ==
    \A t \in Threads :
        (/\ EditChecked(t)
         /\ Before(t).source # Before(t).citekey
         /\ th[t].out.rec.source = Before(t).source
         /\ th[t].out.rec.citekey = Before(t).citekey) =>
            Msg("source_citekey_differ", <<>>, <<>>, <<>>) \notin th[t].out.check.errors

\* A call that has passed its check and is behind the alias steps.
AfterAliases(t) ==
    Passed(t) /\ th[t].pc \in {"change", "change_w", "save", "responded"}

\* The alias entry of a key of the edit of thread t, when the key counts as
\* changed.
KeyAlias(t, key, counts) ==
    IF counts
    THEN <<AliasEntry(key, Before(t)[key], th[t].out.rec[key], th[t].out.reason, th[t].now)>>
    ELSE <<>>

\* An edit without key_rename_confirmed that would change source or citekey
\* has raised and has left the records, the changelog and the aliases alone.
UnconfirmedRejected(t) ==
    (EditChecked(t) /\ th[t].out.changed_key /\ ~th[t].out.breaking) =>
        (Raised(t) /\ th[t].out.raise = "key_rename" /\ Untouched(t))

Renamed(old, new) == old # <<>> /\ new # <<>> /\ old # new

C26_IdsUnique ==
    \A i, j \in 1..Len(registry) : registry[i].id = registry[j].id => i = j

\* C25: after any sequence of successful adds, edits and deletes, one at a
\* time, on an empty registry no two records have the same source and no two
\* the same citekey, whitespace normalized.
C25_KeysUnique ==
    \A i, j \in 1..Len(registry) :
        (\/ normalize_whitespace(registry[i].source) = normalize_whitespace(registry[j].source)
         \/ normalize_whitespace(registry[i].citekey) = normalize_whitespace(registry[j].citekey))
        => i = j

(***************************************************************************)
(* Claim C27: a request of /api/apply_and_build that is answered with an   *)
(* error.                                                                  *)
(***************************************************************************)

\* The step in which the handler of an apply_and_build request gets to its
\* error response (line 1312).
AnswersError(t) ==
    /\ th[t].via = "http"
    /\ th[t].op = "apply"
    /\ th[t].pc # "responded"
    /\ th'[t].pc = "responded"
    /\ th'[t].resp = "error"

\* The changelog and the aliases as the request found them: the pre-check
\* runs before anything is written, apply_payload records what it found.
AtRequest(t) ==
    IF th[t].pc = "precheck"
    THEN [changelog |-> changelog, aliases |-> aliases]
    ELSE [changelog |-> th'[t].entry.changelog, aliases |-> th'[t].entry.aliases]

\* C27: when a request of /api/apply_and_build ends with an error response,
\* for a failed pre-check, a failed validation or a failed build, the
\* registry file, the changelog and the aliases are as they were when the
\* request arrived.
C27_ErrorLeavesFilesUnchanged ==
    [][\A t \in Threads :
          AnswersError(t) =>
              /\ registry' = th[t].loaded
              /\ changelog' = AtRequest(t).changelog
              /\ aliases' = AtRequest(t).aliases]_vars

(***************************************************************************)
(* Claim C23: the idle timer and /api/shutdown against a running request.  *)
(***************************************************************************)

\* A request is between its first file write and its last: it has written
\* an alias or the changelog entry and has not yet written the registry
\* and, where there is a dictionary to build from, the bibliography.
MidOperation(t) ==
    /\ th[t].via = "http"
    /\ \/ th[t].pc \in {"alias_citekey", "alias_citekey_w", "change", "change_w"}
          /\ aliases # th[t].entry.aliases
       \/ th[t].pc = "save"
       \/ th[t].pc \in {"build_load", "build_sheet", "build_bib"} /\ dictionary.exists

\* C23: the idle timer and the /api/shutdown request stop the server only
\* between operations: the process never exits while an apply_and_build or
\* delete_entry request is between its first file write and its last.
C23_ShutdownBetweenOperations ==
    httpd = "exited" => \A t \in Threads : ~MidOperation(t)

(***************************************************************************)
(* Claim C21: what makes check_generated_artifacts fail.                   *)
(***************************************************************************)

\* The .bib file regenerated differs from the committed one in its text.
BibDiffers == ~ga_bib.exists \/ ga_tmp_bib.text # ga_bib.text

\* The sheet regenerated differs from the committed one in the rows read
\* back.
SheetDiffers ==
    read_sources_sheet(ga_tmp_dict).rows # read_sources_sheet(ga_dictionary).rows

\* C21: check_generated_artifacts fails if and only if the .bib file
\* regenerated from the registry differs in its text from the committed one or
\* the sheet regenerated differs from the committed one in the rows read back;
\* directly after build_sources_artifacts has run on the registry the check
\* passes.
C21_FailsIffArtifactDiffers ==
    ga_pc \in {"passed", "failed"} =>
        /\ ga_pc = "failed" <=> (BibDiffers \/ SheetDiffers)
        /\ ga_since = "build" => ga_pc = "passed"

=========================================================================
